---- MODULE Spec2Model ----
(***************************************************************************)
(* State-machine model of the caretaker-monitoring front end:              *)
(*   - AudioMonitor (alert-threshold variant), src/unnamed/part_000:237-754 *)
(*   - AudioMonitor (simple variant) event list, src/unnamed/part_000:1-235 *)
(*   - FallDetectionUI live feed and job polling,                          *)
(*     src/frontend/static/js/fall-detection.js                            *)
(*   - RegistrationForm, src/unnamed/part_002                              *)
(*   - FaceRegistration, src/unnamed/part_001                              *)
(*                                                                         *)
(* Conventions.  Classifier scores are kept as integer percentages (the    *)
(* source compares floats in [0,1] against 0.78 and 0.90).  Date.now() is  *)
(* the variable now, in milliseconds, advanced by Tick in steps of         *)
(* TimeStep; a setTimeout callback may run at or after its due time, never *)
(* before.  Every await of the source is a suspension point: the code up   *)
(* to it is one action, its continuation another.                          *)
(***************************************************************************)
EXTENDS Integers, Sequences, FiniteSets, TLC

(* ------------------------------ bounds -------------------------------- *)
MaxClicks == 4
MaxCallbacks == 2
MaxTicks == 3
TimeStep == 1000
MaxAdds == 11
MaxVideoClicks == 3
MaxJobs == 1
MaxPolls == 3
MaxPollTicks == 4
MaxRecipients == 2
MaxFaceClicks == 2
MaxFaceTicks == 3
MaxWeatherTicks == 2
MaxProcessClicks == 3

(* ------------------------- program constants -------------------------- *)
DETECTION_THRESHOLD == 78
ALERT_THRESHOLD == 90
DebounceMs == 1000
CooldownMs == 2000
RecordMs == 3000
MaxEvents == 10
PollMs == 2000
PhoneLength == 10
CaptureDelayMs == 300
DetectTimeoutMs == 20000

VARIABLES
    \* AudioMonitor, alert-threshold variant
    pagePc,             \* initAudioMonitoring: "loading" | "ready" | "failed"
    btnEnabled,         \* ~startListeningBtn.disabled
    btnText,            \* startListeningBtn.textContent
    audioStatus,        \* audioStatus.textContent
    audioContext,       \* index into ctxState of the current AudioContext, 0 = undefined
    ctxState,           \* every AudioContext created: "running" | "closed"
    microphone,         \* stream wrapped by the current MediaStreamSource, 0 = undefined
    micStreams,         \* every microphone MediaStream acquired: [origin, live]
    gumInit,            \* setupAudioProcessing's getUserMedia: none|pending|granted|denied
    tasks,              \* toggleAudioMonitoring invocations: [pc, ctx]
    isListening,
    streaming,          \* the classifier's callback stream is registered and running
    frames,             \* analyze closures with a requested animation frame pending:
                        \* 0 = setupAudioProcessing's, i = that of invocation tasks[i]
    animationId,        \* "null" | "pending" (names a pending frame) | "stale"
    detectionActive, detectionStartTime, detectionTimeouts, detectionCounts,
    totalDetections, coughDetections,
    timers,             \* pending cooldown timers per label (set of due times)
    detectedEventList,  \* children of #detectedEventList, index 1 = firstChild
    nAdded,             \* number of event elements ever created (element identity)
    dialogs,            \* alert() dialogs shown so far, per label
    lastAlertAt,        \* time of the latest alert() per label, -1 = never
    recordings,         \* saveDetectionRecording invocations: [pc, type, stream, due]
    uploads,            \* POST /api/recordings requests issued
    nCallbacks,         \* classifier callbacks delivered
    lastCb,             \* what the latest classifier callback did
    \* FallDetectionUI, live feed
    videoStream,        \* window.videoStream: index into camStreams, 0 = null/undefined
    camStreams,         \* every camera MediaStream acquired: TRUE = its tracks are live
    feedTasks,          \* toggleVideoFeed invocations awaiting getUserMedia
    activePane,         \* the pane (and mode button) with class active: "live" | "upload"
    feedBtnText,        \* label of #startFeedBtn
    liveFeedStatus,     \* #liveFeedStatus text
    captureControls,    \* .capture-controls style.display
    videoFeed,          \* #videoFeed: [srcObject, display, paused]
    placeholder,        \* .video-placeholder style.display
    \* FallDetectionUI, upload and job polling
    jobs,               \* processing jobs: [pc, due, reqAt, log, resultsRequests]
    fallDetectionResults, \* what #fallDetectionResults shows
    retryBtn,           \* a #retryUpload button with its click handler exists
    uploadArea,         \* #uploadArea style.display
    resultSection,      \* #resultSection style.display
    processingSection,  \* #processingSection style.display
    \* RegistrationForm
    regPc,              \* submit handler: blank|idle|signup|upload|redirected|rejected|failed
    caretaker,          \* values of the five caretaker inputs
    recipientDivs,      \* the .care-recipient blocks of the page, in document order
    divsAfter,          \* recipientDivsAfter: the blocks queried after the signup
    createdRecipients,  \* ids of responseData.result.care_recipients
    upIdx,              \* index i of the upload loop (1-based), 0 = not in the loop
    signupResp,         \* `response`: how the signup fetch settled
    uploadAnswers,      \* how the upload fetches issued so far settled, in order
    regLog,             \* alerts, requests, token writes and redirects, in order
    token,              \* localStorage token, "" = none
    \* FaceRegistration
    facePc,             \* initialize: new|models|webcam|ready|failed
    modelsLoaded,
    webcam,             \* setupWebcam's getUserMedia: none|pending|granted|denied
    loadedData,         \* the video's loadeddata event has fired
    listeners,          \* setupEventListeners has attached the click handlers
    faceDescriptor,     \* "null" | "descriptor"
    descriptorInput,    \* value of the hidden #faceDescriptor field
    isFaceCaptured,
    captureBtn,         \* #captureFaceBtn: [disabled, text, display]
    retakeBtn,          \* #retakeFaceBtn style.display
    faceStatus,         \* which message #faceStatus shows
    faceVideo,          \* #webcam style.display
    faceCanvas,         \* #canvas style.display
    captures,           \* captureFace invocations: [pc, clickedAt, due, endedAt, outcome, waits]
    faceOp,             \* the FaceRegistration step that ran last
    \* WeatherWidget
    weatherFetches,     \* updateWeatherDisplay invocations: [pc, data], in issue order
    weatherShown,       \* text of #location, #tempValue, #humidityValue, #aqiValue
    weatherTimer,       \* the 300000 ms interval of init() is armed
    \* VideoMonitoring
    processBtn,         \* #process-btn: [disabled, text, spinner]
    vmFile,             \* #video-upload holds a file
    vmRequests,         \* processVideo invocations past the file check: [pc, outcome]
    fallAlerts,         \* messages in #fall-alerts, oldest first
    processedVideo,     \* [display of #result-section, src of #processed-video]
    now

audioVars == <<pagePc, btnEnabled, btnText, audioStatus, audioContext, ctxState,
               microphone, micStreams, gumInit, tasks, isListening, streaming,
               frames, animationId>>
loopVars == <<frames, animationId>>
detectVars == <<detectionActive, detectionStartTime, detectionTimeouts, detectionCounts,
                totalDetections, coughDetections, timers, detectedEventList, nAdded,
                dialogs, lastAlertAt, recordings, uploads, nCallbacks, lastCb>>
videoVars == <<videoStream, camStreams, feedTasks, activePane, feedBtnText, liveFeedStatus,
               captureControls, videoFeed, placeholder>>
pollVars == <<jobs, fallDetectionResults, retryBtn, uploadArea, resultSection,
              processingSection>>
regVars == <<regPc, caretaker, recipientDivs, divsAfter, createdRecipients, upIdx,
             signupResp, uploadAnswers, regLog, token>>
faceVars == <<facePc, modelsLoaded, webcam, loadedData, listeners, faceDescriptor,
              descriptorInput, isFaceCaptured, captureBtn, retakeBtn, faceStatus,
              faceVideo, faceCanvas, captures, faceOp>>
weatherVars == <<weatherFetches, weatherShown, weatherTimer>>
vmVars == <<processBtn, vmFile, vmRequests, fallAlerts, processedVideo>>
vars == <<audioVars, detectVars, videoVars, pollVars, regVars, faceVars, weatherVars,
          vmVars, now>>

\* What the actions of one component leave alone.
nonAudioVars == <<videoVars, pollVars, regVars, faceVars, weatherVars, vmVars>>
nonFallVars == <<audioVars, detectVars, regVars, faceVars, weatherVars, vmVars>>
nonRegVars == <<audioVars, detectVars, videoVars, pollVars, faceVars, weatherVars,
                vmVars, now>>
nonFaceVars == <<audioVars, detectVars, videoVars, pollVars, regVars, weatherVars,
                 vmVars>>
nonWeatherVars == <<audioVars, detectVars, videoVars, pollVars, regVars, faceVars,
                    vmVars, now>>
nonVmVars == <<audioVars, detectVars, videoVars, pollVars, regVars, faceVars,
               weatherVars, now>>

Labels == {"cough", "snore"}
NoTime == -1
NoCb == [t |-> NoTime]

(* ===================== AudioMonitor: life cycle ======================= *)

\* `if (animationId) cancelAnimationFrame(animationId)` (lines 362-364,
\* 446-448, 736-737): the frame the id names, if still pending, is dropped.
\* Only setupAudioProcessing's analyze stores the id (line 358).
CancelFrame(fs) == IF animationId = "pending" THEN fs \ {0} ELSE fs

\* What the id names after such a cancel that does not reset it.
Cancelled == IF animationId = "pending" THEN "stale" ELSE animationId

\* One run of an analyze closure (lines 340-359, 422-443): it samples and
\* requests the next frame unless isListening is false.
Analyze(fs, loop, listening) == IF listening THEN fs \cup {loop} ELSE fs

InitAudio ==
    /\ pagePc = "loading"
    /\ btnEnabled = FALSE
    /\ btnText = "Start Listening"
    /\ audioStatus = "Initializing"
    /\ audioContext = 0
    /\ ctxState = <<>>
    /\ microphone = 0
    /\ micStreams = <<>>
    /\ gumInit = "none"
    /\ tasks = <<>>
    /\ isListening = FALSE
    /\ streaming = FALSE
    /\ frames = {}
    /\ animationId = "null"

InitDetect ==
    /\ detectionActive = [l \in Labels |-> FALSE]
    /\ detectionStartTime = [l \in Labels |-> NoTime]
    /\ detectionTimeouts = [l \in Labels |-> NoTime]
    /\ detectionCounts = [l \in Labels |-> 0]
    /\ totalDetections = 0
    /\ coughDetections = 0
    /\ timers = [l \in Labels |-> {}]
    /\ detectedEventList = <<>>
    /\ nAdded = 0
    /\ dialogs = [l \in Labels |-> 0]
    /\ lastAlertAt = [l \in Labels |-> NoTime]
    /\ recordings = <<>>
    /\ uploads = 0
    /\ nCallbacks = 0
    /\ lastCb = NoCb

InitVideo ==
    /\ videoStream = 0
    /\ camStreams = <<>>
    /\ feedTasks = <<>>
    /\ activePane = "live"
    /\ feedBtnText = "Start Live Feed"
    /\ liveFeedStatus = "Click Start Live Feed to begin camera feed."
    /\ captureControls = "none"
    /\ videoFeed = [srcObject |-> 0, display |-> "", paused |-> TRUE]
    /\ placeholder = ""

InitPoll ==
    /\ jobs = <<>>
    /\ fallDetectionResults = "empty"
    /\ retryBtn = FALSE
    /\ uploadArea = ""
    /\ resultSection = "none"
    /\ processingSection = "none"

\* The signup page before anything is typed: one empty recipient block.
InitRegister ==
    /\ regPc = "blank"
    /\ caretaker = [full_name |-> "", email |-> "", username |-> "",
                    phone_number |-> "", password |-> ""]
    /\ recipientDivs = <<>>
    /\ divsAfter = <<>>
    /\ createdRecipients = <<>>
    /\ upIdx = 0
    /\ signupResp = [kind |-> "none"]
    /\ uploadAnswers = <<>>
    /\ regLog = <<>>
    /\ token = ""

\* FaceRegistration's constructor (lines 3-15); the page shows the live video,
\* the capture button, and hides the canvas and the retake button.
InitFace ==
    /\ facePc = "new"
    /\ modelsLoaded = FALSE
    /\ webcam = "none"
    /\ loadedData = FALSE
    /\ listeners = FALSE
    /\ faceDescriptor = "null"
    /\ descriptorInput = ""
    /\ isFaceCaptured = FALSE
    /\ captureBtn = [disabled |-> FALSE, text |-> "Capture Face", display |-> "inline-block"]
    /\ retakeBtn = "none"
    /\ faceStatus = ""
    /\ faceVideo = "block"
    /\ faceCanvas = "none"
    /\ captures = <<>>
    /\ faceOp = "constructor"

\* WeatherWidget after its constructor: createWidget has written the
\* placeholders (lines 37-51), init has issued the first update (line 14) and
\* armed the 5-minute interval (line 20).
Placeholders ==
    [location |-> "Loading...", tempValue |-> "--°C", humidityValue |-> "--%",
     aqiValue |-> "--"]

InitWeather ==
    /\ weatherFetches = <<[pc |-> "fetch", data |-> "none"]>>
    /\ weatherShown = Placeholders
    /\ weatherTimer = TRUE

\* VideoMonitoring after its constructor (lines 528-536): the button as the
\* page delivers it, no file chosen, nothing requested.
InitVm ==
    /\ processBtn = [disabled |-> FALSE, text |-> "Process Video", spinner |-> "d-none"]
    /\ vmFile = FALSE
    /\ vmRequests = <<>>
    /\ fallAlerts = <<>>
    /\ processedVideo = [display |-> "none", src |-> ""]

InitOther == InitVideo /\ InitPoll /\ InitRegister /\ InitFace /\ InitWeather /\ InitVm

Init == InitAudio /\ InitDetect /\ InitOther /\ now = 0

NewStream(origin) == [origin |-> origin, live |-> TRUE]
LiveStreams == {i \in DOMAIN micStreams : micStreams[i].live}

\* initAudioMonitoring, after the model has loaded: a first AudioContext is
\* created, setupAudioProcessing issues getUserMedia, the button is enabled.
ModelLoaded ==
    /\ pagePc = "loading"
    /\ pagePc' = "ready"
    /\ ctxState' = Append(ctxState, "running")
    /\ audioContext' = Len(ctxState) + 1
    /\ gumInit' = "pending"
    /\ audioStatus' = "Ready to monitor"
    /\ btnEnabled' = TRUE
    /\ UNCHANGED <<btnText, microphone, micStreams, tasks, isListening, streaming>>
    /\ UNCHANGED <<detectVars, now>>
    /\ UNCHANGED loopVars
    /\ UNCHANGED nonAudioVars

\* initAudioMonitoring's catch: the model could not be created or loaded.
ModelLoadFailed ==
    /\ pagePc = "loading"
    /\ pagePc' = "failed"
    /\ audioStatus' = "Error initializing audio"
    /\ UNCHANGED <<btnEnabled, btnText, audioContext, ctxState, microphone, micStreams,
                   gumInit, tasks, isListening, streaming>>
    /\ UNCHANGED <<detectVars, now>>
    /\ UNCHANGED loopVars
    /\ UNCHANGED nonAudioVars

\* setupAudioProcessing's then-callback: the stream is wrapped by a source node
\* of whatever context audioContext names now, and is never stopped here.
InitGumGranted ==
    /\ gumInit = "pending"
    /\ gumInit' = "granted"
    /\ micStreams' = Append(micStreams, NewStream("init"))
    /\ microphone' = Len(micStreams) + 1
    /\ frames' = Analyze(CancelFrame(frames), 0, isListening)
    /\ animationId' = IF isListening THEN "pending" ELSE Cancelled
    /\ UNCHANGED <<pagePc, btnEnabled, btnText, audioStatus, audioContext, ctxState,
                   tasks, isListening, streaming>>
    /\ UNCHANGED <<detectVars, now>>
    /\ UNCHANGED nonAudioVars

InitGumDenied ==
    /\ gumInit = "pending"
    /\ gumInit' = "denied"
    /\ audioStatus' = "Microphone access denied"
    /\ UNCHANGED <<pagePc, btnEnabled, btnText, audioContext, ctxState, microphone,
                   micStreams, tasks, isListening, streaming>>
    /\ UNCHANGED <<detectVars, now>>
    /\ UNCHANGED loopVars
    /\ UNCHANGED nonAudioVars

(* toggleAudioMonitoring (click on #startListening).  Each click starts one  *)
(* invocation; tasks records where each one is suspended.                   *)
CtxOpen == audioContext # 0 /\ ctxState[audioContext] # "closed"
Task(pc, ctx) == [pc |-> pc, ctx |-> ctx]
Finish(i, pc) == [tasks EXCEPT ![i].pc = pc]

\* lines 399-403: stopVisualization(); isListening = false; button and status.
StopTail ==
    /\ frames' = CancelFrame(frames)
    /\ animationId' = "null"
    /\ isListening' = FALSE
    /\ btnText' = "Start Listening"
    /\ audioStatus' = "Monitoring stopped"

\* StartCatch without the reset of isListening.
StartCatch_KeepsFlag ==
    /\ audioStatus' = "Error"
    /\ btnText' = "Start Listening"
    /\ UNCHANGED isListening

\* lines 488-493: the catch of the start branch.
StartCatch ==
    /\ audioStatus' = "Error"
    /\ isListening' = FALSE
    /\ btnText' = "Start Listening"

\* Stop branch up to `await audioContext.close()`: microphone.disconnect()
\* detaches the source node; no track of any stream is stopped.
ClickStop ==
    /\ btnEnabled /\ Len(tasks) < MaxClicks
    /\ isListening /\ CtxOpen
    /\ tasks' = Append(tasks, Task("awaitClose", audioContext))
    /\ UNCHANGED <<pagePc, btnEnabled, btnText, audioStatus, audioContext, ctxState,
                   microphone, micStreams, gumInit, isListening, streaming>>
    /\ UNCHANGED <<detectVars, now>>
    /\ UNCHANGED loopVars
    /\ UNCHANGED nonAudioVars

\* Stop branch when the context is already closed: nothing is awaited.
ClickStopClosed ==
    /\ btnEnabled /\ Len(tasks) < MaxClicks
    /\ isListening /\ ~CtxOpen
    /\ StopTail
    /\ tasks' = Append(tasks, Task("done", audioContext))
    /\ UNCHANGED <<pagePc, btnEnabled, audioContext, ctxState, microphone, micStreams,
                   gumInit, streaming>>
    /\ UNCHANGED <<detectVars, now>>
    /\ UNCHANGED nonAudioVars

\* close() settles: the context is closed and the stop branch finishes.
CloseResolved(i) ==
    /\ tasks[i].pc = "awaitClose"
    /\ ctxState' = [ctxState EXCEPT ![tasks[i].ctx] = "closed"]
    /\ StopTail
    /\ tasks' = Finish(i, "done")
    /\ UNCHANGED <<pagePc, btnEnabled, audioContext, microphone, micStreams, gumInit,
                   streaming>>
    /\ UNCHANGED <<detectVars, now>>
    /\ UNCHANGED nonAudioVars

\* close() of a context another invocation closed meanwhile may reject
\* (InvalidStateError); the stop branch has no catch, the invocation ends.
CloseRejected(i) ==
    /\ tasks[i].pc = "awaitClose"
    /\ ctxState[tasks[i].ctx] = "closed"
    /\ tasks' = Finish(i, "failed")
    /\ UNCHANGED <<pagePc, btnEnabled, btnText, audioStatus, audioContext, ctxState,
                   microphone, micStreams, gumInit, isListening, streaming>>
    /\ UNCHANGED <<detectVars, now>>
    /\ UNCHANGED loopVars
    /\ UNCHANGED nonAudioVars

\* Start branch up to `await getUserMedia`: a new AudioContext replaces the
\* one audioContext named (which is not closed).
ClickStart ==
    /\ btnEnabled /\ Len(tasks) < MaxClicks
    /\ ~isListening
    /\ ctxState' = Append(ctxState, "running")
    /\ audioContext' = Len(ctxState) + 1
    /\ tasks' = Append(tasks, Task("awaitGum", Len(ctxState) + 1))
    /\ UNCHANGED <<pagePc, btnEnabled, btnText, audioStatus, microphone, micStreams,
                   gumInit, isListening, streaming>>
    /\ UNCHANGED <<detectVars, now>>
    /\ UNCHANGED loopVars
    /\ UNCHANGED nonAudioVars

\* getUserMedia resolves (lines 412-452): the new stream is wrapped, the flags
\* and texts are set, and model.listen is called and awaited.
GumGranted(i) ==
    /\ tasks[i].pc = "awaitGum"
    /\ micStreams' = Append(micStreams, NewStream("start"))
    /\ microphone' = Len(micStreams) + 1
    /\ isListening' = TRUE
    /\ btnText' = "Stop Listening"
    /\ audioStatus' = "Listening for sounds..."
    /\ tasks' = Finish(i, "awaitListen")
    /\ frames' = Analyze(CancelFrame(frames), i, TRUE)
    /\ animationId' = Cancelled
    /\ UNCHANGED <<pagePc, btnEnabled, audioContext, ctxState, gumInit, streaming>>
    /\ UNCHANGED <<detectVars, now>>
    /\ UNCHANGED nonAudioVars

\* getUserMedia resolves but createMediaStreamSource throws because the
\* current context was closed meanwhile: the catch runs, the stream stays live.
GumGrantedCtxClosed(i) ==
    /\ tasks[i].pc = "awaitGum"
    /\ ~CtxOpen
    /\ micStreams' = Append(micStreams, NewStream("start"))
    /\ StartCatch
    /\ tasks' = Finish(i, "failed")
    /\ UNCHANGED <<pagePc, btnEnabled, audioContext, ctxState, microphone, gumInit,
                   streaming>>
    /\ UNCHANGED <<detectVars, now>>
    /\ UNCHANGED loopVars
    /\ UNCHANGED nonAudioVars

GumDenied(i) ==
    /\ tasks[i].pc = "awaitGum"
    /\ StartCatch
    /\ tasks' = Finish(i, "failed")
    /\ UNCHANGED <<pagePc, btnEnabled, audioContext, ctxState, microphone, micStreams,
                   gumInit, streaming>>
    /\ UNCHANGED <<detectVars, now>>
    /\ UNCHANGED loopVars
    /\ UNCHANGED nonAudioVars

\* model.listen resolves: the classifier starts delivering callbacks.  The
\* recogniser refuses to start streaming while it is already streaming.
ListenResolved(i) ==
    /\ tasks[i].pc = "awaitListen"
    /\ ~streaming
    /\ streaming' = TRUE
    /\ tasks' = Finish(i, "done")
    /\ UNCHANGED <<pagePc, btnEnabled, btnText, audioStatus, audioContext, ctxState,
                   microphone, micStreams, gumInit, isListening>>
    /\ UNCHANGED <<detectVars, now>>
    /\ UNCHANGED loopVars
    /\ UNCHANGED nonAudioVars

ListenRejected(i) ==
    /\ tasks[i].pc = "awaitListen"
    /\ StartCatch
    /\ tasks' = Finish(i, "failed")
    /\ UNCHANGED <<pagePc, btnEnabled, audioContext, ctxState, microphone, micStreams,
                   gumInit, streaming>>
    /\ UNCHANGED <<detectVars, now>>
    /\ UNCHANGED loopVars
    /\ UNCHANGED nonAudioVars

\* As InitGumGranted, but createMediaStreamSource throws because the current
\* context is closed: the promise chain's catch reports a denial.
InitGumGrantedCtxClosed ==
    /\ gumInit = "pending"
    /\ ~CtxOpen
    /\ gumInit' = "granted"
    /\ micStreams' = Append(micStreams, NewStream("init"))
    /\ audioStatus' = "Microphone access denied"
    /\ UNCHANGED <<pagePc, btnEnabled, btnText, audioContext, ctxState, microphone,
                   tasks, isListening, streaming>>
    /\ UNCHANGED <<detectVars, now>>
    /\ UNCHANGED loopVars
    /\ UNCHANGED nonAudioVars

(* ================= AudioMonitor: detection pipeline =================== *)

\* The detection state handleDetection reads and writes, as one record.
DetState ==
    [detectionActive |-> detectionActive, detectionStartTime |-> detectionStartTime,
     detectionTimeouts |-> detectionTimeouts, detectionCounts |-> detectionCounts,
     totalDetections |-> totalDetections, coughDetections |-> coughDetections,
     timers |-> timers, detectedEventList |-> detectedEventList, nAdded |-> nAdded,
     dialogs |-> dialogs, lastAlertAt |-> lastAlertAt, recordings |-> recordings]

\* lines 667-670: while (children.length > 10) removeChild(lastChild).
RECURSIVE TrimEvents(_)
TrimEvents(list) ==
    IF Len(list) > MaxEvents THEN TrimEvents(SubSeq(list, 1, Len(list) - 1)) ELSE list

\* addDetectedEvent adding the new element at the end of the list.
addDetectedEvent_Append(list, e) == TrimEvents(Append(list, e))

\* addDetectedEvent: insertBefore(firstChild) or appendChild, then the trim.
addDetectedEvent(list, e) ==
    TrimEvents(IF list # <<>> THEN <<e>> \o list ELSE Append(list, e))

EventElement(label, confidence, id, t) ==
    [label |-> label, confidence |-> confidence, id |-> id, time |-> t]

\* AlertDue with the debounce window compared by >= instead of >.
AlertDue_Inclusive(d, type, score, t) ==
    /\ score >= ALERT_THRESHOLD
    /\ \/ ~d.detectionActive[type]
       \/ (t - d.detectionStartTime[type]) >= DebounceMs

\* lines 511-512: the alert condition.
AlertDue(d, type, score, t) ==
    /\ score >= ALERT_THRESHOLD
    /\ \/ ~d.detectionActive[type]
       \/ (t - d.detectionStartTime[type]) > DebounceMs

\* lines 513-533: the alert branch (dialog, event, count, recording).
FireAlert(d, type, score, t) ==
    [d EXCEPT !.detectionActive[type] = TRUE,
              !.detectionStartTime[type] = t,
              !.dialogs[type] = @ + 1,
              !.lastAlertAt[type] = t,
              !.detectedEventList =
                  addDetectedEvent(@, EventElement(type, score, d.nAdded + 1, t)),
              !.nAdded = @ + 1,
              !.detectionCounts[type] = @ + 1,
              !.recordings = Append(@, [pc |-> "awaitGum", type |-> type,
                                        stream |-> 0, due |-> NoTime])]

\* RestartCooldown arming the new timer without clearing the pending one.
RestartCooldown_NoClear(d, type, t) ==
    [d EXCEPT !.timers[type] = @ \cup {t + CooldownMs},
              !.detectionTimeouts[type] = t + CooldownMs]

\* lines 536-543: restart the label's cooldown timer.
RestartCooldown(d, type, t) ==
    [d EXCEPT !.timers[type] =
                  (IF d.detectionTimeouts[type] # NoTime
                   THEN @ \ {d.detectionTimeouts[type]} ELSE @) \cup {t + CooldownMs},
              !.detectionTimeouts[type] = t + CooldownMs]

\* handleDetection logging an event for every detection, outside the alert branch.
handleDetection_LogAll(d, type, score, t) ==
    LET d1 == [d EXCEPT !.totalDetections = @ + 1,
                        !.coughDetections =
                            IF type = "cough" /\ score >= DETECTION_THRESHOLD
                            THEN @ + 1 ELSE @]
        d2 == IF AlertDue(d1, type, score, t)
              THEN [FireAlert(d1, type, score, t) EXCEPT
                        !.detectedEventList = d1.detectedEventList,
                        !.nAdded = d1.nAdded]
              ELSE d1
        d3 == [d2 EXCEPT !.detectedEventList =
                             addDetectedEvent(@, EventElement(type, score, d2.nAdded + 1, t)),
                         !.nAdded = @ + 1]
    IN  RestartCooldown(d3, type, t)

\* handleDetection(type, score) at time t.
handleDetection(d, type, score, t) ==
    LET d1 == [d EXCEPT !.totalDetections = @ + 1,
                        !.coughDetections =
                            IF type = "cough" /\ score >= DETECTION_THRESHOLD
                            THEN @ + 1 ELSE @]
        d2 == IF AlertDue(d1, type, score, t) THEN FireAlert(d1, type, score, t) ELSE d1
    IN  RestartCooldown(d2, type, t)

\* Detected with a strict comparison.
Detected_Strict(score) == score > DETECTION_THRESHOLD

\* lines 474-479: which labels of a callback reach handleDetection.
Detected(score) == score >= DETECTION_THRESHOLD

\* The model.listen callback on one classifier result.
ListenCallback(d, sc, t) ==
    LET dc == IF Detected(sc.cough) THEN handleDetection(d, "cough", sc.cough, t) ELSE d
    IN  IF Detected(sc.snore) THEN handleDetection(dc, "snore", sc.snore, t) ELSE dc

\* Classifier results delivered to the callback (scores in percent).
ScoreVectors ==
    { [background |-> 5,  cough |-> 95, snore |-> 10],
      [background |-> 99, cough |-> 10, snore |-> 77],
      [background |-> 5,  cough |-> 80, snore |-> 95],
      [background |-> 10, cough |-> 78, snore |-> 77],
      [background |-> 10, cough |-> 90, snore |-> 89] }

ClassifierCallback(sc) ==
    /\ streaming
    /\ nCallbacks < MaxCallbacks
    /\ LET d == ListenCallback(DetState, sc, now) IN
        /\ detectionActive' = d.detectionActive
        /\ detectionStartTime' = d.detectionStartTime
        /\ detectionTimeouts' = d.detectionTimeouts
        /\ detectionCounts' = d.detectionCounts
        /\ totalDetections' = d.totalDetections
        /\ coughDetections' = d.coughDetections
        /\ timers' = d.timers
        /\ detectedEventList' = d.detectedEventList
        /\ nAdded' = d.nAdded
        /\ dialogs' = d.dialogs
        /\ lastAlertAt' = d.lastAlertAt
        /\ recordings' = d.recordings
    /\ nCallbacks' = nCallbacks + 1
    /\ lastCb' = [t |-> now, scores |-> sc,
                  totalDetections |-> totalDetections,
                  coughDetections |-> coughDetections,
                  detectionCounts |-> detectionCounts,
                  dialogs |-> dialogs, lastAlertAt |-> lastAlertAt,
                  detectionTimeouts |-> detectionTimeouts,
                  nAdded |-> nAdded, nRecordings |-> Len(recordings)]
    /\ UNCHANGED <<audioVars, uploads, now>>
    /\ UNCHANGED nonAudioVars

\* The cooldown timer of a label runs (lines 540-543), at or after its due time.
CooldownFires(type) ==
    /\ \E h \in timers[type] :
        /\ now >= h
        /\ timers' = [timers EXCEPT ![type] = @ \ {h}]
    /\ detectionActive' = [detectionActive EXCEPT ![type] = FALSE]
    /\ detectionStartTime' = [detectionStartTime EXCEPT ![type] = NoTime]
    /\ UNCHANGED <<detectionTimeouts, detectionCounts, totalDetections, coughDetections,
                   detectedEventList, nAdded, dialogs, lastAlertAt, recordings, uploads,
                   nCallbacks, lastCb>>
    /\ UNCHANGED <<audioVars, now>>
    /\ UNCHANGED nonAudioVars

Tick(limit) ==
    /\ now + TimeStep <= limit * TimeStep
    /\ now' = now + TimeStep
    /\ UNCHANGED <<audioVars, detectVars>>
    /\ UNCHANGED nonAudioVars

(* saveDetectionRecording: its own getUserMedia, a 3 s recorder, the upload. *)
RecGumGranted(r) ==
    /\ recordings[r].pc = "awaitGum"
    /\ micStreams' = Append(micStreams, NewStream("record"))
    /\ recordings' = [recordings EXCEPT ![r].pc = "recording",
                                        ![r].stream = Len(micStreams) + 1,
                                        ![r].due = now + RecordMs]
    /\ UNCHANGED <<pagePc, btnEnabled, btnText, audioStatus, audioContext, ctxState,
                   microphone, gumInit, tasks, isListening, streaming, loopVars>>
    /\ UNCHANGED <<detectionActive, detectionStartTime, detectionTimeouts, detectionCounts,
                   totalDetections, coughDetections, timers, detectedEventList, nAdded,
                   dialogs, lastAlertAt, uploads, nCallbacks, lastCb, now>>
    /\ UNCHANGED nonAudioVars

RecGumDenied(r) ==
    /\ recordings[r].pc = "awaitGum"
    /\ recordings' = [recordings EXCEPT ![r].pc = "failed"]
    /\ UNCHANGED <<audioVars, now>>
    /\ UNCHANGED <<detectionActive, detectionStartTime, detectionTimeouts, detectionCounts,
                   totalDetections, coughDetections, timers, detectedEventList, nAdded,
                   dialogs, lastAlertAt, uploads, nCallbacks, lastCb>>
    /\ UNCHANGED nonAudioVars

\* lines 582-585 and 557-579: the recorder's timeout stops the recorder and
\* the tracks of the recording's own stream; onstop posts the clip.
RecorderStops(r) ==
    /\ recordings[r].pc = "recording"
    /\ now >= recordings[r].due
    /\ micStreams' = [micStreams EXCEPT ![recordings[r].stream].live = FALSE]
    /\ recordings' = [recordings EXCEPT ![r].pc = "uploaded"]
    /\ uploads' = uploads + 1
    /\ UNCHANGED <<pagePc, btnEnabled, btnText, audioStatus, audioContext, ctxState,
                   microphone, gumInit, tasks, isListening, streaming, loopVars>>
    /\ UNCHANGED <<detectionActive, detectionStartTime, detectionTimeouts, detectionCounts,
                   totalDetections, coughDetections, timers, detectedEventList, nAdded,
                   dialogs, lastAlertAt, nCallbacks, lastCb, now>>
    /\ UNCHANGED nonAudioVars

\* The life cycle of the monitor: page initialisation and the toggle button.
NextAudio ==
    \/ ModelLoaded
    \/ ModelLoadFailed
    \/ InitGumGranted
    \/ InitGumGrantedCtxClosed
    \/ InitGumDenied
    \/ ClickStop
    \/ ClickStopClosed
    \/ ClickStart
    \/ \E i \in DOMAIN tasks : CloseResolved(i)
    \/ \E i \in DOMAIN tasks : CloseRejected(i)
    \/ \E i \in DOMAIN tasks : GumGranted(i)
    \/ \E i \in DOMAIN tasks : GumGrantedCtxClosed(i)
    \/ \E i \in DOMAIN tasks : GumDenied(i)
    \/ \E i \in DOMAIN tasks : ListenResolved(i)
    \/ \E i \in DOMAIN tasks : ListenRejected(i)

SpecAudio == Init /\ [][NextAudio]_vars

\* The monitor while it listens: the state SpecAudio reaches by ModelLoaded,
\* InitGumGranted, ClickStart, GumGranted(1), ListenResolved(1).
Monitoring ==
    /\ pagePc = "ready"
    /\ btnEnabled = TRUE
    /\ btnText = "Stop Listening"
    /\ audioStatus = "Listening for sounds..."
    /\ audioContext = 2
    /\ ctxState = <<"running", "running">>
    /\ microphone = 2
    /\ micStreams = <<NewStream("init"), NewStream("start")>>
    /\ gumInit = "granted"
    /\ tasks = <<Task("done", 2)>>
    /\ isListening = TRUE
    /\ streaming = TRUE
    /\ frames = {1}
    /\ animationId = "null"

InitMonitoring == Monitoring /\ InitDetect /\ InitOther /\ now = 0

\* The detection pipeline of a listening monitor: classifier callbacks, the
\* cooldown timers, the alert recordings, and the passage of time.
NextDetect ==
    \/ \E sc \in ScoreVectors : ClassifierCallback(sc)
    \/ \E l \in Labels : CooldownFires(l)
    \/ \E r \in DOMAIN recordings : RecGumGranted(r)
    \/ \E r \in DOMAIN recordings : RecGumDenied(r)
    \/ \E r \in DOMAIN recordings : RecorderStops(r)
    \/ Tick(MaxTicks)

SpecDetect == InitMonitoring /\ [][NextDetect]_vars

(* ============ AudioMonitor, simple variant: the event list ============ *)

\* model.wordLabels() of the simple variant, in the classifier's order.
SimpleLabels == <<"Background Noise", "cough", "snore">>

\* Math.max(...scores) and scores.indexOf(maxScore): the first index of the
\* largest score.
MaxScore(scores) ==
    CHOOSE m \in {scores[i] : i \in DOMAIN scores} : \A i \in DOMAIN scores : scores[i] <= m
MaxIndex(scores) ==
    CHOOSE i \in DOMAIN scores :
        /\ scores[i] = MaxScore(scores)
        /\ \A j \in DOMAIN scores : scores[j] = MaxScore(scores) => i <= j

\* Classifier results delivered to the simple variant's callback.
SimpleScores ==
    { <<95, 10, 10>>, <<10, 78, 10>>, <<50, 77, 10>>, <<95, 95, 10>> }

\* The simple variant's model.listen callback (lines 169-185): the top label
\* is logged when its score reaches the detection threshold.
SimpleCallback(scores) ==
    /\ streaming
    /\ nCallbacks < MaxAdds
    /\ nCallbacks' = nCallbacks + 1
    /\ IF MaxScore(scores) >= DETECTION_THRESHOLD
       THEN /\ detectedEventList' =
                   addDetectedEvent(detectedEventList,
                       EventElement(SimpleLabels[MaxIndex(scores)], MaxScore(scores),
                                    nAdded + 1, now))
            /\ nAdded' = nAdded + 1
       ELSE UNCHANGED <<detectedEventList, nAdded>>
    /\ UNCHANGED <<detectionActive, detectionStartTime, detectionTimeouts, detectionCounts,
                   totalDetections, coughDetections, timers, dialogs, lastAlertAt,
                   recordings, uploads, lastCb>>
    /\ UNCHANGED <<audioVars, now>>
    /\ UNCHANGED nonAudioVars

NextEvents == \E scores \in SimpleScores : SimpleCallback(scores)

\* The simple variant declares the same monitor state (lines 10-14) and
\* starts listening the same way; its callbacks feed the event list.
SpecEvents == InitMonitoring /\ [][NextEvents]_vars

(* ==================== FallDetectionUI: live feed ====================== *)

LiveCamStreams == {i \in DOMAIN camStreams : camStreams[i]}

\* stopVideoFeed dropping the reference without stopping the tracks.
stopVideoFeed_NoTrackStop ==
    /\ camStreams' = camStreams
    /\ videoStream' = 0
    /\ videoFeed' = [srcObject |-> 0, display |-> "none", paused |-> TRUE]
    /\ placeholder' = "flex"

\* stopVideoFeed (lines 265-283).
stopVideoFeed ==
    /\ camStreams' = IF videoStream # 0
                     THEN [camStreams EXCEPT ![videoStream] = FALSE] ELSE camStreams
    /\ videoStream' = 0
    /\ videoFeed' = [srcObject |-> 0, display |-> "none", paused |-> TRUE]
    /\ placeholder' = "flex"

\* `if (window.videoStream) stopVideoFeed();` (lines 146-148, 521-523).
StopFeedIfActive ==
    IF videoStream # 0 THEN stopVideoFeed
    ELSE UNCHANGED <<camStreams, videoStream, videoFeed, placeholder>>

\* Click on #liveFeedBtn (lines 139-149): the live pane becomes the active
\* pane, and a running feed is stopped.
LiveFeedBtnClick ==
    /\ activePane' = "live"
    /\ StopFeedIfActive
    /\ UNCHANGED <<feedTasks, feedBtnText, liveFeedStatus, captureControls>>
    /\ UNCHANGED <<pollVars, nonFallVars, now>>

\* Click on #uploadVideoBtn (lines 151-156): only the active classes change.
UploadVideoBtnClick ==
    /\ activePane' = "upload"
    /\ UNCHANGED <<videoStream, camStreams, feedTasks, feedBtnText, liveFeedStatus,
                   captureControls, videoFeed, placeholder>>
    /\ UNCHANGED <<pollVars, nonFallVars, now>>

\* toggleVideoFeed with a stream in window.videoStream (lines 216-227).  The
\* button lives in the live pane and can be clicked while that pane is active.
FeedClickStop ==
    /\ activePane = "live"
    /\ videoStream # 0
    /\ stopVideoFeed
    /\ feedBtnText' = "Start Live Feed"
    /\ liveFeedStatus' = "Live feed stopped."
    /\ captureControls' = "none"
    /\ UNCHANGED <<feedTasks, activePane>>
    /\ UNCHANGED <<pollVars, nonFallVars, now>>

\* toggleVideoFeed without a stream (lines 229-237): getUserMedia is awaited.
FeedClickStart ==
    /\ activePane = "live"
    /\ videoStream = 0
    /\ Len(feedTasks) < MaxVideoClicks
    /\ feedTasks' = Append(feedTasks, "awaitGum")
    /\ UNCHANGED <<videoStream, camStreams, activePane, feedBtnText, liveFeedStatus,
                   captureControls, videoFeed, placeholder>>
    /\ UNCHANGED <<pollVars, nonFallVars, now>>

\* getUserMedia resolves (lines 239-257): the stream becomes window.videoStream
\* whatever that held, and the UI shows the running feed.
FeedGumGranted(i) ==
    /\ feedTasks[i] = "awaitGum"
    /\ feedTasks' = [feedTasks EXCEPT ![i] = "done"]
    /\ camStreams' = Append(camStreams, TRUE)
    /\ videoStream' = Len(camStreams) + 1
    /\ videoFeed' = [srcObject |-> Len(camStreams) + 1, display |-> "block", paused |-> FALSE]
    /\ placeholder' = "none"
    /\ feedBtnText' = "Stop Live Feed"
    /\ liveFeedStatus' = "Live feed is active."
    /\ captureControls' = "flex"
    /\ UNCHANGED activePane
    /\ UNCHANGED <<pollVars, nonFallVars, now>>

\* getUserMedia rejects (lines 259-262).
FeedGumDenied(i) ==
    /\ feedTasks[i] = "awaitGum"
    /\ feedTasks' = [feedTasks EXCEPT ![i] = "failed"]
    /\ liveFeedStatus' = "Error: Could not access camera."
    /\ UNCHANGED <<videoStream, camStreams, activePane, feedBtnText, captureControls,
                   videoFeed, placeholder>>
    /\ UNCHANGED <<pollVars, nonFallVars, now>>

(* ============== FallDetectionUI: upload and job polling =============== *)

NewJob == [pc |-> "upload", due |-> NoTime, reqAt |-> <<>>, log |-> <<>>,
           resultsRequests |-> 0]

\* showError (lines 498-525): the error panel with the retry button.
showError ==
    /\ fallDetectionResults' = "error"
    /\ retryBtn' = TRUE

\* Answers to GET /api/fall-detection/status/{processId}: the fetch rejects,
\* or a response arrives that is 2xx or not, with a body that parses or not.
\* "processing" stands for every status other than "completed" and "error"
\* ("queued" takes the same else branch, lines 415-418).
Response(kind, ok, status) == [kind |-> kind, ok |-> ok, status |-> status]
StatusResponses ==
    { Response("rejected", FALSE, "none"),
      Response("response", FALSE, "none"),
      Response("response", TRUE, "unparsable"),
      Response("response", TRUE, "processing"),
      Response("response", TRUE, "completed"),
      Response("response", TRUE, "error") }

\* StatusOutcome treating the status "error" like any unfinished status.
StatusOutcome_ErrorPolls(r) ==
    IF r.kind = "rejected" THEN "fail"
    ELSE IF ~r.ok THEN "fail"
    ELSE IF r.status = "unparsable" THEN "fail"
    ELSE IF r.status = "completed" THEN "completed"
    ELSE "continue"

\* StatusOutcome without the response.ok check.
StatusOutcome_NoOkCheck(r) ==
    IF r.kind = "rejected" THEN "fail"
    ELSE IF r.status = "unparsable" THEN "fail"
    ELSE IF r.status = "completed" THEN "completed"
    ELSE IF r.status = "error" THEN "fail"
    ELSE "continue"

\* pollProcessingStatus, lines 387-418 and its catch: what one answer leads to.
StatusOutcome(r) ==
    IF r.kind = "rejected" THEN "fail"
    ELSE IF ~r.ok THEN "fail"
    ELSE IF r.status = "unparsable" THEN "fail"
    ELSE IF r.status = "completed" THEN "completed"
    ELSE IF r.status = "error" THEN "fail"
    ELSE "continue"

\* A video file is chosen or dropped in the upload pane: the file is posted
\* to the backend, which answers with the id of a processing job.
HandleFileUpload ==
    /\ activePane = "upload"
    /\ Len(jobs) < MaxJobs
    /\ jobs' = Append(jobs, NewJob)
    /\ UNCHANGED <<fallDetectionResults, retryBtn, uploadArea, resultSection,
                   processingSection>>
    /\ UNCHANGED <<videoVars, nonFallVars, now>>

\* The upload is accepted: pollProcessingStatus(processId) issues the first
\* status request (line 387).
UploadAccepted(j) ==
    /\ jobs[j].pc = "upload"
    /\ jobs' = [jobs EXCEPT ![j].pc = "status", ![j].reqAt = <<now>>]
    /\ UNCHANGED <<fallDetectionResults, retryBtn, uploadArea, resultSection,
                   processingSection>>
    /\ UNCHANGED <<videoVars, nonFallVars, now>>

\* The upload fails: handleDrop's catch calls showError (lines 377-380).
UploadFailed(j) ==
    /\ jobs[j].pc = "upload"
    /\ jobs' = [jobs EXCEPT ![j].pc = "failed"]
    /\ showError
    /\ UNCHANGED <<uploadArea, resultSection, processingSection>>
    /\ UNCHANGED <<videoVars, nonFallVars, now>>

\* The continuation of pollProcessingStatus after its fetch settled.
StatusResponse(j, r) ==
    /\ jobs[j].pc = "status"
    /\ LET logged == [jobs EXCEPT ![j].log = Append(@, [resp |-> r, at |-> now])] IN
       CASE StatusOutcome(r) = "completed" ->
                \* showProcessingResults issues the results request (line 430)
                /\ jobs' = [logged EXCEPT ![j].pc = "results", ![j].resultsRequests = @ + 1]
                /\ UNCHANGED <<fallDetectionResults, retryBtn>>
         [] StatusOutcome(r) = "fail" ->
                /\ jobs' = [logged EXCEPT ![j].pc = "failed"]
                /\ showError
         [] OTHER ->
                \* setTimeout(() => pollProcessingStatus(processId), 2000)
                /\ jobs' = [logged EXCEPT ![j].pc = "wait", ![j].due = now + PollMs]
                /\ UNCHANGED <<fallDetectionResults, retryBtn>>
    /\ UNCHANGED <<uploadArea, resultSection, processingSection>>
    /\ UNCHANGED <<videoVars, nonFallVars, now>>

\* The poll timer runs, at or after its due time: the next status request.
PollTimerFires(j) ==
    /\ jobs[j].pc = "wait"
    /\ now >= jobs[j].due
    /\ Len(jobs[j].reqAt) < MaxPolls
    /\ jobs' = [jobs EXCEPT ![j].pc = "status", ![j].reqAt = Append(@, now)]
    /\ UNCHANGED <<fallDetectionResults, retryBtn, uploadArea, resultSection,
                   processingSection>>
    /\ UNCHANGED <<videoVars, nonFallVars, now>>

\* Answers to GET /api/fall-detection/results/{processId}.
ResultsResponses == {"falls", "nofalls", "http_error", "rejected"}

\* The continuation of showProcessingResults (lines 436-494).
ResultsResponse(j, r) ==
    /\ jobs[j].pc = "results"
    /\ IF r \in {"falls", "nofalls"}
       THEN /\ jobs' = [jobs EXCEPT ![j].pc = "shown"]
            /\ fallDetectionResults' = r
            /\ retryBtn' = FALSE
            /\ processingSection' = "none"
            /\ resultSection' = "block"
       ELSE /\ jobs' = [jobs EXCEPT ![j].pc = "resultsFailed"]
            /\ showError
            /\ UNCHANGED <<processingSection, resultSection>>
    /\ UNCHANGED uploadArea
    /\ UNCHANGED <<videoVars, nonFallVars, now>>

\* Click on the retry button of the error panel (lines 515-524).
RetryClick ==
    /\ retryBtn
    /\ activePane = "upload"
    /\ uploadArea' = "block"
    /\ resultSection' = "none"
    /\ StopFeedIfActive
    /\ UNCHANGED <<jobs, fallDetectionResults, retryBtn, processingSection>>
    /\ UNCHANGED <<feedTasks, activePane, feedBtnText, liveFeedStatus, captureControls>>
    /\ UNCHANGED <<nonFallVars, now>>

\* The live feed: the mode buttons, the feed toggle, and the error panel's
\* retry button, which an upload the backend refuses brings up.
NextVideo ==
    \/ LiveFeedBtnClick
    \/ UploadVideoBtnClick
    \/ FeedClickStop
    \/ FeedClickStart
    \/ \E i \in DOMAIN feedTasks : FeedGumGranted(i)
    \/ \E i \in DOMAIN feedTasks : FeedGumDenied(i)
    \/ HandleFileUpload
    \/ \E j \in DOMAIN jobs : UploadFailed(j)
    \/ RetryClick

SpecVideo == Init /\ [][NextVideo]_vars

\* The upload flow: uploads, the polling of their jobs, and the passage of time.
NextPoll ==
    \/ UploadVideoBtnClick
    \/ HandleFileUpload
    \/ \E j \in DOMAIN jobs : UploadAccepted(j)
    \/ \E j \in DOMAIN jobs : UploadFailed(j)
    \/ \E j \in DOMAIN jobs : \E r \in StatusResponses : StatusResponse(j, r)
    \/ \E j \in DOMAIN jobs : PollTimerFires(j)
    \/ \E j \in DOMAIN jobs : \E r \in ResultsResponses : ResultsResponse(j, r)
    \/ RetryClick
    \/ Tick(MaxPollTicks)

SpecPoll == Init /\ [][NextPoll]_vars

(* ====================== Claims: AudioMonitor ========================== *)

\* C1: when the stop branch of toggleAudioMonitoring completes (isListening
\* goes from true to false with the status "Monitoring stopped"), every track
\* of every microphone stream the monitor acquired is stopped and the current
\* AudioContext is closed.
C1_StopReleasesMicrophone ==
    [][(isListening /\ ~isListening' /\ audioStatus' = "Monitoring stopped")
         => /\ \A i \in DOMAIN micStreams' : ~micStreams'[i].live
            /\ audioContext' # 0
            /\ ctxState'[audioContext'] = "closed"]_vars

\* C3: in every reachable state at most one microphone MediaStream has live
\* tracks.
C3_AtMostOneLiveMicStream == Cardinality(LiveStreams) <= 1

\* What the latest callback is expected to have done for a label, in the
\* claims' own numbers: detection from 78 %, alert from 90 % unless an alert
\* for the label fired 1000 ms ago or less.
CbDetected(l) == lastCb.scores[l] >= 78
CbAlertExpected(l) ==
    /\ lastCb.scores[l] >= 90
    /\ \/ lastCb.lastAlertAt[l] = NoTime
       \/ lastCb.t - lastCb.lastAlertAt[l] > 1000
One(b) == IF b THEN 1 ELSE 0
CbAlerts == One(CbAlertExpected("cough")) + One(CbAlertExpected("snore"))

\* C5: for every label of a callback, an alert (dialog, detectionCounts
\* increment, recording capture, DetectionEvent) fires iff its score is >= 90 %
\* and no alert for the label fired within the prior 1000 ms; the callback
\* {cough: 0.95, snore: 0.1} with no recent cough alert yields exactly one
\* dialog and exactly one DetectionEvent, labelled cough with confidence 0.95.
C5_AlertIffThresholdAndDebounce ==
    lastCb # NoCb =>
        /\ \A l \in Labels :
            /\ dialogs[l] = lastCb.dialogs[l] + One(CbAlertExpected(l))
            /\ detectionCounts[l] = lastCb.detectionCounts[l] + One(CbAlertExpected(l))
            /\ lastAlertAt[l] = IF CbAlertExpected(l) THEN lastCb.t ELSE lastCb.lastAlertAt[l]
        /\ Len(recordings) = lastCb.nRecordings + CbAlerts
        /\ nAdded = lastCb.nAdded + CbAlerts
        /\ (lastCb.scores.cough = 95 /\ lastCb.scores.snore = 10
            /\ CbAlertExpected("cough")) =>
               /\ dialogs["cough"] + dialogs["snore"]
                    = lastCb.dialogs["cough"] + lastCb.dialogs["snore"] + 1
               /\ nAdded = lastCb.nAdded + 1
               /\ detectedEventList[1].label = "cough"
               /\ detectedEventList[1].confidence = 95

\* Witness of C5: the latest callback carried a cough score >= 90 % that was
\* suppressed because a cough alert fired within the prior 1000 ms.
C5_Witness ==
    /\ lastCb # NoCb
    /\ lastCb.scores.cough >= 90
    /\ lastCb.lastAlertAt["cough"] # NoTime
    /\ lastCb.t - lastCb.lastAlertAt["cough"] = 1000
    /\ dialogs["cough"] = lastCb.dialogs["cough"]
    /\ dialogs["cough"] = 1

\* C6: on each callback the detection pipeline runs for a tracked label iff
\* its score is >= 78 %: totalDetections grows by the number of such labels,
\* coughDetections by one exactly when cough is detected, the label's cooldown
\* timer is restarted exactly then, and the background score changes nothing.
C6_DetectionIffThreshold ==
    lastCb # NoCb =>
        /\ totalDetections
             = lastCb.totalDetections + One(CbDetected("cough")) + One(CbDetected("snore"))
        /\ coughDetections = lastCb.coughDetections + One(CbDetected("cough"))
        /\ \A l \in Labels :
             detectionTimeouts[l] = IF CbDetected(l) THEN lastCb.t + 2000
                                    ELSE lastCb.detectionTimeouts[l]

\* Witness of C6: a callback with cough exactly at 78 % and snore at 77 % or
\* below after which only the cough detection was counted.
C6_Witness ==
    /\ lastCb # NoCb
    /\ lastCb.scores.cough = 78
    /\ lastCb.scores.snore < 78
    /\ totalDetections = lastCb.totalDetections + 1
    /\ coughDetections = lastCb.coughDetections + 1

\* C7 as claimed: a DetectionEvent is added on every callback for every
\* tracked label whose score is >= 78 %.
C7_EventOnEveryDetection ==
    lastCb # NoCb =>
        nAdded = lastCb.nAdded + One(CbDetected("cough")) + One(CbDetected("snore"))

\* The events the latest callback should have put on top of the list, most
\* recent first (cough is handled before snore).
CbEvents ==
    (IF CbAlertExpected("snore") THEN <<"snore">> ELSE <<>>)
        \o (IF CbAlertExpected("cough") THEN <<"cough">> ELSE <<>>)

\* C7 amended: a DetectionEvent is added exactly when an alert fires, i.e.
\* for a tracked label whose score is >= 90 % and that had no alert within the
\* prior 1000 ms; it carries the label, the score and the time of the callback.
C7_EventIffAlert ==
    lastCb # NoCb =>
        /\ nAdded = lastCb.nAdded + Len(CbEvents)
        /\ Len(detectedEventList) >= Len(CbEvents)
        /\ \A k \in 1..Len(CbEvents) :
            /\ detectedEventList[k].label = CbEvents[k]
            /\ detectedEventList[k].confidence = lastCb.scores[CbEvents[k]]
            /\ detectedEventList[k].time = lastCb.t
            /\ detectedEventList[k].id > lastCb.nAdded

\* Witness of C7: a callback with a score in [78 %, 90 %) that ran the
\* detection pipeline and added no event.
C7_Witness ==
    /\ lastCb # NoCb
    /\ lastCb.scores.cough >= 78
    /\ lastCb.scores.cough < 90
    /\ lastCb.scores.snore < 78
    /\ totalDetections = lastCb.totalDetections + 1
    /\ nAdded = lastCb.nAdded

\* C8: the detected-event list holds at most 10 entries, the most recently
\* added event is at index 0 (the first child), the entries are in
\* most-recent-first order, and past capacity exactly the oldest entries are
\* gone: the list is the latest min(n, 10) events, newest first.
C8_EventListBoundedNewestFirst ==
    /\ Len(detectedEventList) <= 10
    /\ Len(detectedEventList) = IF nAdded <= 10 THEN nAdded ELSE 10
    /\ \A k \in DOMAIN detectedEventList : detectedEventList[k].id = nAdded - k + 1

\* Witness of C8: the 11th event was added, the list holds 10 entries, the
\* 11th is first and the 2nd is last (the 1st was evicted).
C8_Witness ==
    /\ nAdded = 11
    /\ Len(detectedEventList) = 10
    /\ detectedEventList[1].id = 11
    /\ detectedEventList[10].id = 2

(* ===================== Claims: FallDetectionUI ======================== *)

\* C2: at most one camera MediaStream has live tracks at any time, and every
\* live stream is the one window.videoStream references.
C2_AtMostOneLiveCameraStream ==
    /\ Cardinality(LiveCamStreams) <= 1
    /\ \A i \in LiveCamStreams : videoStream = i

\* C4: no camera stream is active while the upload pane is the active pane.
C4_NoStreamInUploadMode ==
    activePane = "upload" => (LiveCamStreams = {} /\ videoStream = 0)

\* The claims' reading of a status answer: polling goes on for a 2xx answer
\* whose status is neither "completed" nor "error"; "completed" and "error"
\* end it, and so do a rejected fetch and a non-2xx answer.
SaysCompleted(e) == e.resp.kind = "response" /\ e.resp.ok /\ e.resp.status = "completed"
SaysUnfinished(e) ==
    e.resp.kind = "response" /\ e.resp.ok /\ e.resp.status \notin {"completed", "error", "unparsable"}

\* C9: another poll is scheduled 2 s later exactly while the returned status
\* is neither "completed" nor "error"; the first "completed" fetches the
\* results exactly once; after a "completed" or "error" status (or a failed
\* request) no further status request is issued for the job.
C9_PollUntilTerminal ==
    \A j \in DOMAIN jobs :
        LET J == jobs[j]
            n == Len(J.log)
        IN  /\ Len(J.reqAt) = n + One(J.pc = "status")
            /\ \A k \in 1..(n - 1) : SaysUnfinished(J.log[k])
            /\ \A k \in 2..Len(J.reqAt) : J.reqAt[k] >= J.log[k - 1].at + 2000
            /\ (n > 0 /\ SaysUnfinished(J.log[n])) =>
                   /\ J.pc \in {"wait", "status"}
                   /\ J.pc = "wait" => J.due = J.log[n].at + 2000
            /\ (n > 0 /\ ~SaysUnfinished(J.log[n])) => J.pc \notin {"wait", "status"}
            /\ J.resultsRequests = One(n > 0 /\ SaysCompleted(J.log[n]))
            /\ J.pc \in {"results", "shown", "resultsFailed"} <=> (n > 0 /\ SaysCompleted(J.log[n]))

\* Witness of C9: a job answered "processing" and then, at least 2 s later,
\* "completed", whose results were fetched once and shown.
C9_Witness ==
    \E j \in DOMAIN jobs :
        /\ Len(jobs[j].log) = 2
        /\ jobs[j].log[1].resp.status = "processing"
        /\ SaysCompleted(jobs[j].log[2])
        /\ jobs[j].resultsRequests = 1
        /\ jobs[j].pc = "shown"

\* A status request of a job failed: the fetch was rejected, the answer was
\* not 2xx, or it reported the status "error".
StatusFailed(J) ==
    /\ J.log # <<>>
    /\ LET r == J.log[Len(J.log)].resp IN
         \/ r.kind = "rejected"
         \/ ~r.ok
         \/ r.status = "error"

\* C10: when a status request is rejected, returns non-2xx or reports "error",
\* the error panel with its retry button is rendered in that step, no poll is
\* scheduled, the results are never fetched, and from then on nothing is
\* issued for the job any more.
C10_FailureStopsPolling ==
    [][\A j \in DOMAIN jobs' :
          StatusFailed(jobs'[j]) =>
              /\ jobs'[j].pc = "failed"
              /\ jobs'[j].resultsRequests = 0
              /\ IF j \in DOMAIN jobs /\ StatusFailed(jobs[j])
                 THEN jobs'[j] = jobs[j]
                 ELSE fallDetectionResults' = "error" /\ retryBtn']_vars

\* Witness of C10: a job whose status request came back non-2xx, with the
\* error panel and its retry button on the page.
C10_Witness ==
    \E j \in DOMAIN jobs :
        /\ jobs[j].log # <<>>
        /\ jobs[j].log[Len(jobs[j].log)].resp = Response("response", FALSE, "none")
        /\ jobs[j].pc = "failed"
        /\ fallDetectionResults = "error"
        /\ retryBtn

(* ========================= RegistrationForm =========================== *)
(* src/unnamed/part_002.  Text inputs whose content the handler inspects    *)
(* (phone, age) are sequences of characters; the others only matter as      *)
(* empty or not.                                                            *)

Digits == {"0", "1", "2", "3", "4", "5", "6", "7", "8", "9"}
DigitValue(c) ==
    CASE c = "0" -> 0 [] c = "1" -> 1 [] c = "2" -> 2 [] c = "3" -> 3 [] c = "4" -> 4
      [] c = "5" -> 5 [] c = "6" -> 6 [] c = "7" -> 7 [] c = "8" -> 8 [] c = "9" -> 9

\* parseInt(string): leading white space is skipped, an optional sign is read,
\* then the longest run of decimal digits; NaN when that run is empty.
RECURSIVE TrimStart(_)
TrimStart(s) == IF s # <<>> /\ Head(s) = " " THEN TrimStart(Tail(s)) ELSE s
RECURSIVE DigitPrefix(_)
DigitPrefix(s) ==
    IF s = <<>> \/ Head(s) \notin Digits THEN <<>>
    ELSE <<Head(s)>> \o DigitPrefix(Tail(s))
RECURSIVE Decimal(_)
Decimal(ds) ==
    IF ds = <<>> THEN 0
    ELSE 10 * Decimal(SubSeq(ds, 1, Len(ds) - 1)) + DigitValue(ds[Len(ds)])
parseInt(s) ==
    LET t == TrimStart(s)
        neg == t # <<>> /\ Head(t) = "-"
        u == IF t # <<>> /\ Head(t) \in {"-", "+"} THEN Tail(t) ELSE t
        ds == DigitPrefix(u)
    IN  IF ds = <<>> THEN [nan |-> TRUE, val |-> 0]
        ELSE [nan |-> FALSE, val |-> IF neg THEN 0 - Decimal(ds) ELSE Decimal(ds)]

\* !x for a number x: true for 0 and for NaN.
Falsy(n) == n.nan \/ n.val = 0

\* What the user can have typed into a recipient block.
ValidBlock ==
    [gender |-> "female", name |-> "Ann", email |-> "ann@example.org",
     phone |-> <<"9", "8", "7", "6", "5", "4", "3", "2", "1", "0">>,
     age |-> <<"4", "2">>, condition |-> "false", report |-> ""]
FieldValues ==
    [gender |-> {""}, name |-> {""}, email |-> {""},
     phone |-> {<<"1", "2", "3", "4", "5">>,
                <<"1", "2", "3", "4", "5", "a", "b", "c", "d", "e">>},
     age |-> {<<"-", "5">>, <<"0">>, <<"a", "b", "c">>},
     condition |-> {},
     report |-> {"report.pdf"}]
\* The valid block with up to two of its fields replaced.
RecipientBlocks ==
    UNION { UNION { { [[ValidBlock EXCEPT ![f1] = v1] EXCEPT ![f2] = v2] :
                        v1 \in FieldValues[f1] \cup {ValidBlock[f1]},
                        v2 \in FieldValues[f2] \cup {ValidBlock[f2]} } :
                    f2 \in DOMAIN FieldValues } : f1 \in DOMAIN FieldValues }
Forms == UNION { [1..n -> RecipientBlocks] : n \in 1..MaxRecipients }
FilledCaretaker ==
    [full_name |-> "Cara", email |-> "cara@example.org", username |-> "cara",
     phone_number |-> "5550100", password |-> "secret"]
Caretakers == {FilledCaretaker, [FilledCaretaker EXCEPT !.password = ""]}

\* lines 160-167: the clone of the first block with every input cleared.
ClearedBlock ==
    [gender |-> "", name |-> "", email |-> "", phone |-> <<>>, age |-> <<>>,
     condition |-> "", report |-> ""]

Ev(kind, detail) == [ev |-> kind, d |-> detail]

\* lines 34-41: the recipient object built from a block.
Recipient(div) ==
    [full_name |-> div.name, email |-> div.email, phone_number |-> div.phone,
     age |-> parseInt(div.age), gender |-> div.gender,
     respiratory_condition_status |-> (div.condition = "true")]

\* RecipientError without the length test on the phone number.
RecipientError_NoPhoneCheck(div) ==
    IF div.gender = "" THEN "Please select a gender for all care recipients"
    ELSE LET r == Recipient(div) IN
         IF r.full_name = "" THEN "Full name is required for all care recipients"
         ELSE IF r.email = "" THEN "Email is required for all care recipients"
         ELSE IF r.phone_number = <<>>
              THEN "Valid 10-digit phone number is required for all care recipients"
         ELSE IF Falsy(r.age) \/ r.age.nan
              THEN "Valid age is required for all care recipients"
         ELSE ""

\* lines 26-47: the message one block sets validationError to, "" for none.
RecipientError(div) ==
    IF div.gender = "" THEN "Please select a gender for all care recipients"
    ELSE LET r == Recipient(div) IN
         IF r.full_name = "" THEN "Full name is required for all care recipients"
         ELSE IF r.email = "" THEN "Email is required for all care recipients"
         ELSE IF r.phone_number = <<>> \/ Len(r.phone_number) # PhoneLength
              THEN "Valid 10-digit phone number is required for all care recipients"
         ELSE IF Falsy(r.age) \/ r.age.nan
              THEN "Valid age is required for all care recipients"
         ELSE ""

\* ValidateFrom without the early return of line 24: a later block's error
\* replaces an earlier one.
RECURSIVE ValidateFrom_LastWins(_, _, _)
ValidateFrom_LastWins(divs, i, acc) ==
    IF i > Len(divs) THEN acc
    ELSE LET e == RecipientError(divs[i]) IN
         ValidateFrom_LastWins(divs, i + 1,
             IF e # "" THEN [acc EXCEPT !.validationError = e]
             ELSE [acc EXCEPT !.care_recipients = Append(@, Recipient(divs[i]))])

\* lines 22-52: recipientDivs.forEach from block i on, acc holding
\* validationError and formData.care_recipients.
RECURSIVE ValidateFrom(_, _, _)
ValidateFrom(divs, i, acc) ==
    IF i > Len(divs) THEN acc
    ELSE IF acc.validationError # "" THEN ValidateFrom(divs, i + 1, acc)
    ELSE LET e == RecipientError(divs[i]) IN
         ValidateFrom(divs, i + 1,
             IF e # "" THEN [acc EXCEPT !.validationError = e]
             ELSE [acc EXCEPT !.care_recipients = Append(@, Recipient(divs[i]))])
ValidateRecipients(divs) ==
    ValidateFrom(divs, 1, [validationError |-> "", care_recipients |-> <<>>])

\* line 17: some caretaker field is empty.
CaretakerIncomplete(c) ==
    c.full_name = "" \/ c.email = "" \/ c.username = "" \/ c.phone_number = ""
        \/ c.password = ""

\* The user fills in the form: the caretaker fields and the recipient blocks.
FillForm(c, divs) ==
    /\ regPc = "blank"
    /\ regPc' = "idle"
    /\ caretaker' = c
    /\ recipientDivs' = divs
    /\ UNCHANGED <<divsAfter, createdRecipients, upIdx, signupResp, uploadAnswers,
                   regLog, token>>
    /\ UNCHANGED nonRegVars

\* Click on #addRecipient (lines 160-167); without a block to clone the
\* handler throws and changes nothing.
AddRecipient ==
    /\ regPc \in {"idle", "signup"}
    /\ Len(recipientDivs) >= 1 /\ Len(recipientDivs) < MaxRecipients
    /\ recipientDivs' = Append(recipientDivs, ClearedBlock)
    /\ UNCHANGED <<regPc, caretaker, divsAfter, createdRecipients, upIdx, signupResp,
                   uploadAnswers, regLog, token>>
    /\ UNCHANGED nonRegVars

\* Click on a block's remove button (lines 170-176).
RemoveRecipient(i) ==
    /\ regPc \in {"idle", "signup"}
    /\ i \in DOMAIN recipientDivs
    /\ recipientDivs' = SubSeq(recipientDivs, 1, i - 1)
                            \o SubSeq(recipientDivs, i + 1, Len(recipientDivs))
    /\ UNCHANGED <<regPc, caretaker, divsAfter, createdRecipients, upIdx, signupResp,
                   uploadAnswers, regLog, token>>
    /\ UNCHANGED nonRegVars

\* The submit handler up to its first await (lines 1-66): the notice, the
\* validation, and either the catch's alert or the signup request.
Submit ==
    /\ regPc = "idle"
    /\ LET notice == Ev("alert", "Registering... Please wait.")
           v == ValidateRecipients(recipientDivs)
       IN  IF CaretakerIncomplete(caretaker)
           THEN /\ regLog' = regLog \o <<notice,
                        Ev("alert", "Please fill out all the main caretaker fields.")>>
                /\ regPc' = "failed"
           ELSE IF v.validationError # ""
           THEN /\ regLog' = regLog \o <<notice, Ev("alert", v.validationError)>>
                /\ regPc' = "failed"
           ELSE /\ regLog' = regLog \o <<notice,
                        Ev("signup", caretaker @@ [care_recipients |-> v.care_recipients])>>
                /\ regPc' = "signup"
    /\ UNCHANGED <<caretaker, recipientDivs, divsAfter, createdRecipients, upIdx,
                   signupResp, uploadAnswers, token>>
    /\ UNCHANGED nonRegVars

\* Answers to POST /api/signup: the fetch rejects, or a response arrives that
\* is 2xx or not, whose body parses or not, with or without result.access_token
\* and result.care_recipients.
SignupAnswer(kind, ok, parses, hasResult) ==
    [kind |-> kind, ok |-> ok, parses |-> parses, hasResult |-> hasResult]
SignupResponses ==
    {SignupAnswer("rejected", FALSE, FALSE, FALSE),
     SignupAnswer("response", FALSE, TRUE, FALSE),
     SignupAnswer("response", FALSE, FALSE, FALSE),
     SignupAnswer("response", TRUE, FALSE, FALSE),
     SignupAnswer("response", TRUE, TRUE, FALSE),
     SignupAnswer("response", TRUE, TRUE, TRUE)}

\* The id the backend assigns to the k-th recipient of a payload.
ServerId(k) == 100 + k

\* NextUpload starting at the block after the next one.
NextUpload_SkipOne(divs, created, from) ==
    LET cand == {i \in (from + 1)..Len(divs) : i <= Len(created) /\ divs[i].report # ""}
    IN  IF cand = {} THEN 0 ELSE CHOOSE i \in cand : \A k \in cand : i <= k

\* lines 103-107: the first index i >= from, within both lists, whose block has
\* a file selected; 0 when the loop runs out.
NextUpload(divs, created, from) ==
    LET cand == {i \in from..Len(divs) : i <= Len(created) /\ divs[i].report # ""}
    IN  IF cand = {} THEN 0 ELSE CHOOSE i \in cand : \A k \in cand : i <= k

\* The upload loop from index `from` on (lines 103-141): it either issues the
\* next upload request and suspends, or ends with the success alert and the
\* redirect.
RunUploadLoop(log, divs, created, from) ==
    LET i == NextUpload(divs, created, from) IN
    IF i # 0
    THEN /\ regLog' = Append(log, Ev("upload", [id |-> created[i], block |-> i,
                                                file |-> divs[i].report]))
         /\ upIdx' = i
         /\ regPc' = "upload"
    ELSE /\ regLog' = log \o
                <<Ev("alert", "Registration successful! You are now logged in. Redirecting to dashboard."),
                  Ev("redirect", "profile.html")>>
         /\ upIdx' = 0
         /\ regPc' = "redirected"

\* SignupFailed treating every response as a success.
SignupFailed_IgnoresStatus(r) == r.kind = "rejected" \/ ~r.parses

\* lines 60-75: the signup did not succeed: the fetch rejected, the body did
\* not parse, or the status is not 2xx.
SignupFailed(r) == r.kind = "rejected" \/ ~r.parses \/ ~r.ok

\* The continuation of the submit handler after the signup fetch settled
\* (lines 68-141, and the catch).
SignupResponse(r) ==
    /\ regPc = "signup"
    /\ IF SignupFailed(r)
       THEN /\ regLog' = Append(regLog, Ev("alert",
                   IF r.kind = "rejected" THEN "Failed to fetch"
                   ELSE IF ~r.parses THEN "Unexpected token"
                   ELSE "Registration failed. Please try again."))
            /\ regPc' = IF r.kind = "response" /\ r.parses THEN "rejected" ELSE "failed"
            /\ UNCHANGED <<token, createdRecipients, divsAfter, upIdx>>
       ELSE LET payload == regLog[Len(regLog)].d
                created == IF r.hasResult
                           THEN [k \in 1..Len(payload.care_recipients) |-> ServerId(k)]
                           ELSE <<>>
                log1 == IF r.hasResult THEN Append(regLog, Ev("token", "access_token"))
                        ELSE regLog
            IN  /\ token' = IF r.hasResult THEN "access_token" ELSE token
                /\ createdRecipients' = created
                /\ divsAfter' = recipientDivs
                /\ RunUploadLoop(log1, recipientDivs, created, 1)
    /\ signupResp' = r
    /\ UNCHANGED <<caretaker, recipientDivs, uploadAnswers>>
    /\ UNCHANGED nonRegVars

\* Answers to POST /api/recipients/{id}/reports.
UploadResponses == {"ok", "ok_unparsable", "http_error", "rejected"}

\* The continuation of the upload loop after an upload fetch settled (lines
\* 124-138): on a 2xx answer whose body parses the loop goes on; anything
\* else is rethrown to the handler's catch, which alerts the message.
UploadResponse(r) ==
    /\ regPc = "upload"
    /\ IF r = "ok"
       THEN RunUploadLoop(regLog, divsAfter, createdRecipients, upIdx + 1)
       ELSE /\ regLog' = Append(regLog, Ev("alert", "Failed to upload medical report"))
            /\ regPc' = "failed"
            /\ UNCHANGED upIdx
    /\ uploadAnswers' = Append(uploadAnswers, r)
    /\ UNCHANGED <<caretaker, recipientDivs, divsAfter, createdRecipients, signupResp,
                   token>>
    /\ UNCHANGED nonRegVars

NextRegister ==
    \/ regPc = "blank" /\ \E c \in Caretakers, divs \in Forms : FillForm(c, divs)
    \/ AddRecipient
    \/ \E i \in 1..MaxRecipients : RemoveRecipient(i)
    \/ Submit
    \/ \E r \in SignupResponses : SignupResponse(r)
    \/ \E r \in UploadResponses : UploadResponse(r)

SpecRegister == Init /\ [][NextRegister]_vars

(* ===================== Claims: RegistrationForm ======================= *)

PhoneMessage == "Valid 10-digit phone number is required for all care recipients"
LogKinds(log) == {log[k].ev : k \in DOMAIN log}
EventsOf(log, kind) == SelectSeq(log, LAMBDA e : e.ev = kind)

\* The checks of a recipient block in the order gender, name, email, phone,
\* age, each with its message; a block is rejected when one of them fails.
BlockChecks(b) ==
    << [fails |-> b.gender = "", msg |-> "Please select a gender for all care recipients"],
       [fails |-> b.name = "", msg |-> "Full name is required for all care recipients"],
       [fails |-> b.email = "", msg |-> "Email is required for all care recipients"],
       [fails |-> Len(b.phone) # 10, msg |-> PhoneMessage],
       [fails |-> parseInt(b.age).nan \/ parseInt(b.age).val = 0,
        msg |-> "Valid age is required for all care recipients"] >>
BlockFails(b) == \E c \in 1..5 : BlockChecks(b)[c].fails
FirstFailure(b) ==
    LET cs == BlockChecks(b)
        c == CHOOSE c \in 1..5 : cs[c].fails /\ \A d \in 1..(c - 1) : ~cs[d].fails
    IN  cs[c].msg
FirstInvalidBlock(divs) ==
    CHOOSE i \in DOMAIN divs : BlockFails(divs[i]) /\ \A j \in 1..(i - 1) : ~BlockFails(divs[j])
Submitting == regPc = "idle" /\ regPc' # "idle"

\* C11: when a submit finds a caretaker field empty or a recipient block that
\* fails a check, the handler ends there: nothing but alerts is logged (no
\* signup request, no upload, no token write, no redirect), no token is
\* stored, and a block whose first failure is a phone number that is not 10
\* long (such as "12345") is reported with the 10-digit phone message.
C11_InvalidFormSendsNothing ==
    [][(Submitting /\ (CaretakerIncomplete(caretaker)
                        \/ \E i \in DOMAIN recipientDivs : BlockFails(recipientDivs[i])))
         => /\ regPc' = "failed"
            /\ LogKinds(regLog') = {"alert"}
            /\ token' = ""
            /\ (/\ ~CaretakerIncomplete(caretaker)
                /\ LET b == recipientDivs[FirstInvalidBlock(recipientDivs)]
                   IN b.gender # "" /\ b.name # "" /\ b.email # "" /\ Len(b.phone) # 10)
                 => regLog'[Len(regLog')] = Ev("alert", PhoneMessage)]_vars

\* Witness of C11: a complete caretaker and one recipient whose phone number
\* is "12345" were submitted; only the notice and the phone alert happened.
C11_Witness ==
    /\ regPc = "failed"
    /\ ~CaretakerIncomplete(caretaker)
    /\ Len(recipientDivs) = 1
    /\ recipientDivs[1] = [ValidBlock EXCEPT !.phone = <<"1", "2", "3", "4", "5">>]
    /\ regLog = <<Ev("alert", "Registering... Please wait."), Ev("alert", PhoneMessage)>>
    /\ token = ""

\* C12: every phone_number in a signup payload that is sent consists of
\* exactly 10 digits.
C12_SentPhonesAreTenDigits ==
    \A k \in DOMAIN regLog :
        regLog[k].ev = "signup" =>
            \A i \in DOMAIN regLog[k].d.care_recipients :
                LET ph == regLog[k].d.care_recipients[i].phone_number
                IN  Len(ph) = 10 /\ \A c \in DOMAIN ph : ph[c] \in Digits

\* C13: every age in a signup payload that is sent is a positive integer.
C13_SentAgesArePositive ==
    \A k \in DOMAIN regLog :
        regLog[k].ev = "signup" =>
            \A i \in DOMAIN regLog[k].d.care_recipients :
                LET a == regLog[k].d.care_recipients[i].age
                IN  ~a.nan /\ a.val > 0

\* C14: when a submit with a complete caretaker finds an invalid recipient
\* block, exactly one alert follows the notice, and it carries the message of
\* the first failing check (in the order gender, name, email, phone, age) of
\* the first invalid block in document order.
C14_FirstFailureWins ==
    [][(Submitting /\ ~CaretakerIncomplete(caretaker)
          /\ \E i \in DOMAIN recipientDivs : BlockFails(recipientDivs[i]))
         => regLog' = regLog \o
               <<Ev("alert", "Registering... Please wait."),
                 Ev("alert", FirstFailure(recipientDivs[FirstInvalidBlock(recipientDivs)]))>>]_vars

\* Witness of C14: the first block lacks a name and has a non-numeric age, the
\* second lacks a gender; the one error shown is the first block's name error.
C14_Witness ==
    /\ regPc = "failed"
    /\ ~CaretakerIncomplete(caretaker)
    /\ Len(recipientDivs) = 2
    /\ recipientDivs[1].name = "" /\ recipientDivs[1].age = <<"a", "b", "c">>
    /\ recipientDivs[2].gender = ""
    /\ Len(regLog) = 2
    /\ regLog[2] = Ev("alert", "Full name is required for all care recipients")

C16_UploadsInOrderAbortOnFailure ==
    LET ups == EventsOf(regLog, "upload")
        n == Len(ups)
        answered == Len(uploadAnswers)
    IN  /\ \A u \in 1..n :
              /\ ups[u].d.block \in DOMAIN divsAfter
              /\ ups[u].d.block \in DOMAIN createdRecipients
              /\ ups[u].d.id = createdRecipients[ups[u].d.block]
              /\ ups[u].d.file = divsAfter[ups[u].d.block].report
              /\ ups[u].d.file # ""
              /\ u > 1 => ups[u].d.block > ups[u - 1].d.block
        /\ n > 0 =>
              {ups[u].d.block : u \in 1..n}
                  = {i \in 1..ups[n].d.block : divsAfter[i].report # ""}
        /\ answered = n - One(regPc = "upload")
        /\ \A a \in 1..(answered - 1) : uploadAnswers[a] = "ok"
        /\ (answered > 0 /\ uploadAnswers[answered] \in {"rejected", "http_error"}) =>
              /\ regPc = "failed"
              /\ regLog[Len(regLog)].ev = "alert"
              /\ "redirect" \notin LogKinds(regLog)
        /\ regPc = "redirected" =>
              {ups[u].d.block : u \in 1..n}
                  = {i \in DOMAIN divsAfter : i <= Len(createdRecipients)
                                               /\ divsAfter[i].report # ""}

\* Witness of C16: two recipients with a file each; the first upload was
\* answered non-2xx, the second was never issued, an alert is the last event.
C16_Witness ==
    /\ uploadAnswers = <<"http_error">>
    /\ Len(divsAfter) = 2 /\ Len(createdRecipients) = 2
    /\ divsAfter[1].report # "" /\ divsAfter[2].report # ""
    /\ Len(EventsOf(regLog, "upload")) = 1
    /\ regPc = "failed"
    /\ regLog[Len(regLog)].ev = "alert"

(* ========================= FaceRegistration =========================== *)
(* src/unnamed/part_001.  faceStatus names the message updateStatus wrote.  *)

\* DOMContentLoaded: initialize() up to `await Promise.all` (lines 17-26).
FaceInitialize ==
    /\ facePc = "new"
    /\ facePc' = "models"
    /\ faceStatus' = "loading"
    /\ faceOp' = "initialize"
    /\ UNCHANGED <<modelsLoaded, webcam, loadedData, listeners, faceDescriptor,
                   descriptorInput, isFaceCaptured, captureBtn, retakeBtn, faceVideo,
                   faceCanvas, captures>>
    /\ UNCHANGED <<nonFaceVars, now>>

\* The models load (lines 28-29, 42-50): setupWebcam asks for the camera.
FaceModelsLoaded ==
    /\ facePc = "models"
    /\ facePc' = "webcam"
    /\ modelsLoaded' = TRUE
    /\ webcam' = "pending"
    /\ faceOp' = "modelsLoaded"
    /\ UNCHANGED <<loadedData, listeners, faceDescriptor, descriptorInput, isFaceCaptured,
                   captureBtn, retakeBtn, faceStatus, faceVideo, faceCanvas, captures>>
    /\ UNCHANGED <<nonFaceVars, now>>

\* A model fails to load: initialize's catch (lines 32-39).
FaceModelsFailed ==
    /\ facePc = "models"
    /\ facePc' = "failed"
    /\ faceStatus' = "unavailable"
    /\ captureBtn' = [captureBtn EXCEPT !.disabled = TRUE, !.text = "Face Capture Unavailable"]
    /\ faceOp' = "modelsFailed"
    /\ UNCHANGED <<modelsLoaded, webcam, loadedData, listeners, faceDescriptor,
                   descriptorInput, isFaceCaptured, retakeBtn, faceVideo, faceCanvas,
                   captures>>
    /\ UNCHANGED <<nonFaceVars, now>>

\* lines 30-31: what initialize does once setupWebcam has returned.
InitializeTail ==
    /\ listeners' = TRUE
    /\ faceStatus' = "ready"
    /\ facePc' = "ready"

\* getUserMedia resolves (lines 51-56); setupWebcam returns and initialize
\* goes on.
WebcamGranted ==
    /\ facePc = "webcam" /\ webcam = "pending"
    /\ webcam' = "granted"
    /\ InitializeTail
    /\ faceOp' = "webcamGranted"
    /\ UNCHANGED <<modelsLoaded, loadedData, faceDescriptor, descriptorInput,
                   isFaceCaptured, captureBtn, retakeBtn, faceVideo, faceCanvas, captures>>
    /\ UNCHANGED <<nonFaceVars, now>>

\* getUserMedia rejects: setupWebcam's own catch (lines 58-65) writes the
\* denial and disables the button, then returns normally, so initialize goes
\* on with lines 30-31.
WebcamDenied ==
    /\ facePc = "webcam" /\ webcam = "pending"
    /\ webcam' = "denied"
    /\ captureBtn' = [captureBtn EXCEPT !.disabled = TRUE, !.text = "Webcam Not Available"]
    /\ InitializeTail
    /\ faceOp' = "webcamDenied"
    /\ UNCHANGED <<modelsLoaded, loadedData, faceDescriptor, descriptorInput,
                   isFaceCaptured, retakeBtn, faceVideo, faceCanvas, captures>>
    /\ UNCHANGED <<nonFaceVars, now>>

\* The video's loadeddata event (lines 54-56).
VideoLoadedData ==
    /\ webcam = "granted" /\ ~loadedData
    /\ loadedData' = TRUE
    /\ faceStatus' = "cameraReady"
    /\ faceOp' = "loadeddata"
    /\ UNCHANGED <<facePc, modelsLoaded, webcam, listeners, faceDescriptor, descriptorInput,
                   isFaceCaptured, captureBtn, retakeBtn, faceVideo, faceCanvas, captures>>
    /\ UNCHANGED <<nonFaceVars, now>>

\* CaptureFinally leaving the label as it is.
CaptureFinally_KeepLabel(btn, captured) == [btn EXCEPT !.disabled = FALSE]

\* lines 147-153: the finally block of captureFace.
CaptureFinally(btn, captured) ==
    [btn EXCEPT !.disabled = FALSE,
                !.text = IF ~captured THEN "Capture Face" ELSE @]

\* captureFace returns.  Promise.race (lines 93-99) leaves both contestants
\* alone: after a timeout the detection is still running, after any other
\* outcome the 20 s timer is still armed (nothing clears it).
EndCapture(i, outcome) ==
    [captures EXCEPT ![i].pc = "done", ![i].endedAt = now, ![i].outcome = outcome,
                     ![i].detection = IF outcome = "timeout" THEN @ ELSE "settled",
                     ![i].timer = IF outcome = "timeout" THEN "fired" ELSE @]

\* An invocation that returned before the latest one began: only its outcome
\* is kept.
Returned(c) ==
    [c EXCEPT !.clickedAt = NoTime, !.due = NoTime, !.endedAt = NoTime, !.waits = 0]

\* Click on the capture button: captureFace up to the 300 ms delay (lines
\* 77-89).  The handler is attached only after the models have loaded.
CaptureClick ==
    /\ listeners /\ ~captureBtn.disabled /\ captureBtn.display # "none"
    /\ modelsLoaded
    /\ Len(captures) < MaxFaceClicks
    /\ faceStatus' = "detecting"
    /\ captureBtn' = [captureBtn EXCEPT !.disabled = TRUE, !.text = "Detecting..."]
    /\ captures' = Append([i \in DOMAIN captures |-> Returned(captures[i])],
                          [pc |-> "delay", clickedAt |-> now,
                           due |-> now + CaptureDelayMs, endedAt |-> NoTime,
                           outcome |-> "none", waits |-> 0,
                           detection |-> "none", timer |-> "none"])
    /\ faceOp' = "captureFace"
    /\ UNCHANGED <<facePc, modelsLoaded, webcam, loadedData, listeners, faceDescriptor,
                   descriptorInput, isFaceCaptured, retakeBtn, faceVideo, faceCanvas>>
    /\ UNCHANGED <<nonFaceVars, now>>

\* The delay is over (lines 93-99): detection starts, racing a 20 s timer.
DetectionStarts(i) ==
    /\ captures[i].pc = "delay" /\ now >= captures[i].due
    /\ captures' = [captures EXCEPT ![i].pc = "race", ![i].due = now + DetectTimeoutMs,
                                    ![i].detection = "pending", ![i].timer = "armed"]
    /\ faceOp' = "detect"
    /\ UNCHANGED <<facePc, modelsLoaded, webcam, loadedData, listeners, faceDescriptor,
                   descriptorInput, isFaceCaptured, captureBtn, retakeBtn, faceStatus,
                   faceVideo, faceCanvas>>
    /\ UNCHANGED <<nonFaceVars, now>>

\* JSON.stringify of the descriptor array (line 104).
JSONStringify(descriptor) == "[" \o descriptor \o "]"

\* Detection resolves with a face (lines 101-135, then the finally block).
DetectionFound(i) ==
    /\ captures[i].pc = "race"
    /\ faceDescriptor' = "descriptor"
    /\ descriptorInput' = JSONStringify("descriptor")
    /\ isFaceCaptured' = TRUE
    /\ captureBtn' = CaptureFinally([captureBtn EXCEPT !.display = "none"], TRUE)
    /\ retakeBtn' = "inline-block"
    /\ faceStatus' = "captured"
    /\ faceVideo' = "none"
    /\ faceCanvas' = "block"
    /\ captures' = EndCapture(i, "captured")
    /\ faceOp' = "captured"
    /\ UNCHANGED <<facePc, modelsLoaded, webcam, loadedData, listeners>>
    /\ UNCHANGED <<nonFaceVars, now>>

\* Detection resolves with a face, the descriptor is stored and the success
\* feedback shown (lines 101-110), and then a call of the drawing part (lines
\* 112-126: canvas sizing, getContext, faceapi.resizeResults, faceapi.draw)
\* throws: the catch block reports a capture error, the finally block runs.
DetectionFoundDrawFails(i) ==
    /\ captures[i].pc = "race"
    /\ faceDescriptor' = "descriptor"
    /\ descriptorInput' = JSONStringify("descriptor")
    /\ isFaceCaptured' = TRUE
    /\ captureBtn' = CaptureFinally([captureBtn EXCEPT !.display = "none"], TRUE)
    /\ retakeBtn' = "inline-block"
    /\ faceStatus' = "captureError"
    /\ captures' = EndCapture(i, "drawError")
    /\ faceOp' = "drawError"
    /\ UNCHANGED <<facePc, modelsLoaded, webcam, loadedData, listeners, faceVideo,
                   faceCanvas>>
    /\ UNCHANGED <<nonFaceVars, now>>

\* What captureFace's failure paths share: a status, then the finally block.
CaptureFails(i, status, outcome) ==
    /\ faceStatus' = status
    /\ captureBtn' = CaptureFinally(captureBtn, isFaceCaptured)
    /\ captures' = EndCapture(i, outcome)
    /\ faceOp' = outcome
    /\ UNCHANGED <<facePc, modelsLoaded, webcam, loadedData, listeners, faceDescriptor,
                   descriptorInput, isFaceCaptured, retakeBtn, faceVideo, faceCanvas>>
    /\ UNCHANGED <<nonFaceVars, now>>

\* Detection resolves without a face (lines 137-139).
DetectionNoFace(i) == captures[i].pc = "race" /\ CaptureFails(i, "noFace", "noFace")

\* Detection rejects (lines 140-146, the else branch).
DetectionRejected(i) == captures[i].pc = "race" /\ CaptureFails(i, "captureError", "error")

\* The 20 s timer runs, at or after its due time, before detection settled:
\* the race rejects with 'Face detection timeout' (lines 98, 142-143).
DetectionTimeout(i) ==
    /\ captures[i].pc = "race" /\ now >= captures[i].due
    /\ CaptureFails(i, "timeout", "timeout")

\* A late contestant of a race that is over, taking the success branch.
LateSettles_Stores(i, field) ==
    /\ captures' = [captures EXCEPT ![i][field] = IF field = "timer" THEN "fired"
                                                  ELSE "settled"]
    /\ faceDescriptor' = "descriptor"
    /\ descriptorInput' = JSONStringify("descriptor")
    /\ isFaceCaptured' = TRUE
    /\ faceStatus' = "captured"
    /\ UNCHANGED <<facePc, modelsLoaded, webcam, loadedData, listeners, captureBtn,
                   retakeBtn, faceVideo, faceCanvas, faceOp>>
    /\ UNCHANGED <<nonFaceVars, now>>

\* A contestant of Promise.race settles after the race is over (lines 93-99):
\* the race promise is settled already and captureFace has returned, so no
\* code of the page runs.
LateSettles(i, field) ==
    /\ captures' = [captures EXCEPT ![i][field] = IF field = "timer" THEN "fired"
                                                  ELSE "settled"]
    /\ UNCHANGED <<facePc, modelsLoaded, webcam, loadedData, listeners, faceDescriptor,
                   descriptorInput, isFaceCaptured, captureBtn, retakeBtn, faceStatus,
                   faceVideo, faceCanvas, faceOp>>
    /\ UNCHANGED <<nonFaceVars, now>>

\* The detection of a capture that timed out settles, with or without a face.
LateDetection(i) ==
    /\ captures[i].pc = "done" /\ captures[i].detection = "pending"
    /\ LateSettles(i, "detection")

\* The 20 s timer of a capture that ended otherwise runs, at or after its due
\* time, and rejects its promise.
LateTimer(i) ==
    /\ captures[i].pc = "done" /\ captures[i].timer = "armed"
    /\ captures[i].due # NoTime /\ now >= captures[i].due
    /\ LateSettles(i, "timer")

\* retakeFace keeping the hidden field's value.
retakeFace_KeepsField ==
    /\ faceDescriptor' = "null"
    /\ isFaceCaptured' = FALSE
    /\ captureBtn' = [disabled |-> FALSE, text |-> "Capture Face", display |-> "inline-block"]
    /\ retakeBtn' = "none"
    /\ faceStatus' = "readyAgain"
    /\ faceCanvas' = "none"
    /\ faceVideo' = "block"
    /\ UNCHANGED descriptorInput

\* retakeFace (lines 156-173).
retakeFace ==
    /\ faceDescriptor' = "null"
    /\ descriptorInput' = ""
    /\ isFaceCaptured' = FALSE
    /\ captureBtn' = [disabled |-> FALSE, text |-> "Capture Face", display |-> "inline-block"]
    /\ retakeBtn' = "none"
    /\ faceStatus' = "readyAgain"
    /\ faceCanvas' = "none"
    /\ faceVideo' = "block"

\* Click on the retake button.
RetakeClick ==
    /\ listeners /\ retakeBtn # "none"
    /\ retakeFace
    /\ faceOp' = "retake"
    /\ UNCHANGED <<facePc, modelsLoaded, webcam, loadedData, listeners, captures>>
    /\ UNCHANGED <<nonFaceVars, now>>

\* Time passes while a capture is pending, by one of the two spans that
\* separate its timers: the 300 ms delay, or the rest of the 20 s after it.
FaceWaits == {CaptureDelayMs, DetectTimeoutMs - CaptureDelayMs}
FaceTick(d) ==
    /\ \E i \in DOMAIN captures : captures[i].pc # "done"
    /\ \A i \in DOMAIN captures : captures[i].pc # "done" => captures[i].waits < MaxFaceTicks
    /\ now' = now + d
    /\ captures' = [i \in DOMAIN captures |->
                       IF captures[i].pc # "done"
                       THEN [captures[i] EXCEPT !.waits = @ + 1] ELSE captures[i]]
    /\ UNCHANGED <<facePc, modelsLoaded, webcam, loadedData, listeners, faceDescriptor,
                   descriptorInput, isFaceCaptured, captureBtn, retakeBtn, faceStatus,
                   faceVideo, faceCanvas, faceOp>>
    /\ UNCHANGED nonFaceVars

NextFace ==
    \/ FaceInitialize
    \/ FaceModelsLoaded
    \/ FaceModelsFailed
    \/ WebcamGranted
    \/ WebcamDenied
    \/ VideoLoadedData
    \/ CaptureClick
    \/ \E i \in DOMAIN captures :
          \/ DetectionStarts(i)
          \/ DetectionFound(i)
          \/ DetectionFoundDrawFails(i)
          \/ DetectionNoFace(i)
          \/ DetectionRejected(i)
          \/ DetectionTimeout(i)
    \/ RetakeClick
    \/ \E d \in FaceWaits : FaceTick(d)

SpecFace == Init /\ [][NextFace]_vars

\* Time passes after the latest capture returned, while its 20 s timer is
\* armed and not yet due.
LateTick(d) ==
    /\ captures # <<>>
    /\ LET c == captures[Len(captures)] IN
          /\ c.pc = "done" /\ c.timer = "armed" /\ now < c.due
          /\ c.waits < MaxFaceTicks
    /\ now' = now + d
    /\ captures' = [captures EXCEPT ![Len(captures)].waits = @ + 1]
    /\ UNCHANGED <<facePc, modelsLoaded, webcam, loadedData, listeners, faceDescriptor,
                   descriptorInput, isFaceCaptured, captureBtn, retakeBtn, faceStatus,
                   faceVideo, faceCanvas, faceOp>>
    /\ UNCHANGED nonFaceVars

\* FaceRegistration with the contestants that outlive their race: captures
\* that find a face or time out, retakes, and what settles after them.
NextLate ==
    \/ FaceInitialize
    \/ FaceModelsLoaded
    \/ WebcamGranted
    \/ VideoLoadedData
    \/ CaptureClick
    \/ \E i \in DOMAIN captures : DetectionStarts(i)
    \/ \E i \in DOMAIN captures : DetectionFound(i)
    \/ \E i \in DOMAIN captures : DetectionTimeout(i)
    \/ RetakeClick
    \/ \E d \in FaceWaits : FaceTick(d)
    \/ \E i \in DOMAIN captures : LateDetection(i)
    \/ \E i \in DOMAIN captures : LateTimer(i)
    \/ \E d \in FaceWaits : LateTick(d)

SpecLate == Init /\ [][NextLate]_vars

(* ===================== Claims: FaceRegistration ======================= *)

LastCapture == captures[Len(captures)]

\* C17 as claimed: a capture whose detection has not settled 20 000 ms after
\* captureFace was called ends with the timeout outcome.
C17_TimeoutTwentySecondsAfterClick ==
    (captures # <<>> /\ LastCapture.pc = "done"
        /\ LastCapture.endedAt - LastCapture.clickedAt >= 20000)
      => LastCapture.outcome = "timeout"

\* C17 amended: the timeout is that of the 20 s timer armed when detection
\* starts, 300 ms or more after captureFace was called.  When it fires before
\* detection settles (never sooner than 20 300 ms after the call), the status
\* shows the timeout message and not the no-face message, no descriptor is
\* stored, and the capture button is enabled and labelled "Capture Face".
C17_TimeoutResetsCapture ==
    faceOp = "timeout" =>
        /\ LastCapture.outcome = "timeout"
        /\ LastCapture.endedAt - LastCapture.clickedAt >= 300 + 20000
        /\ faceStatus = "timeout" /\ faceStatus # "noFace"
        /\ faceDescriptor = "null" /\ descriptorInput = "" /\ ~isFaceCaptured
        /\ ~captureBtn.disabled
        /\ captureBtn.text = "Capture Face"
        /\ captureBtn.text # "Detecting..."

\* Witness of C17: a capture just ended by the timer, 20 300 ms after the
\* click, with the timeout message shown and the button back to its label.
C17_Witness ==
    /\ faceOp = "timeout"
    /\ LastCapture.endedAt - LastCapture.clickedAt = 20300
    /\ faceStatus = "timeout"
    /\ ~captureBtn.disabled
    /\ captureBtn.text = "Capture Face"

\* C18: right after retakeFace, from whatever state a successful capture led
\* to, faceDescriptor is null, the hidden field is empty, isFaceCaptured is
\* false, the video is shown instead of the canvas, and the capture button is
\* visible and enabled.
C18_RetakeRestoresPreCapture ==
    faceOp = "retake" =>
        /\ faceDescriptor = "null"
        /\ descriptorInput = ""
        /\ ~isFaceCaptured
        /\ faceVideo = "block" /\ faceCanvas = "none"
        /\ captureBtn.display # "none" /\ ~captureBtn.disabled
        /\ captureBtn.text = "Capture Face"
        /\ retakeBtn = "none"

\* Witness of C18: retakeFace has just run after a capture that found a face.
C18_Witness ==
    /\ faceOp = "retake"
    /\ captures # <<>> /\ LastCapture.outcome = "captured"
    /\ faceDescriptor = "null" /\ descriptorInput = ""
    /\ faceVideo = "block"

\* C19: once initialize has finished after a denied webcam, the status reports
\* the permission error (it does not announce that capture is ready) and the
\* capture button is disabled.
C19_DenialReportedAndDisabled ==
    (webcam = "denied" /\ facePc \in {"ready", "failed"}) =>
        /\ faceStatus = "denied"
        /\ faceStatus # "ready"
        /\ captureBtn.disabled

(* ================ Claims: AudioMonitor start failures ================= *)

StartFailsAt(i) ==
    /\ i \in DOMAIN tasks /\ tasks[i].pc \in {"awaitGum", "awaitListen"}
    /\ tasks'[i].pc = "failed"

\* C20: when a step of starting fails (the microphone is refused, the source
\* node cannot be created, or model.listen rejects), the handler leaves
\* isListening false, the button reading "Start Listening" and the status
\* showing the error, so the next click takes the start branch.
C20_StartFailureRevertsToStopped ==
    [][(\E i \in DOMAIN tasks : StartFailsAt(i)) =>
          /\ ~isListening'
          /\ btnText' = "Start Listening"
          /\ audioStatus' = "Error"]_vars

\* Witness of C20: an invocation whose model.listen rejected after the
\* microphone had been granted (isListening had been set), the monitor shown
\* as stopped with the error.
C20_Witness ==
    /\ \E i \in DOMAIN tasks : tasks[i].pc = "failed"
    /\ \E k \in DOMAIN micStreams : micStreams[k].origin = "start"
    /\ \A i \in DOMAIN tasks : tasks[i].pc \in {"failed"}
    /\ microphone # 0 /\ micStreams[microphone].origin = "start"
    /\ ~isListening
    /\ btnText = "Start Listening"
    /\ audioStatus = "Error"

(***************************************************************************)
(* AudioMonitor cooldown (handleDetection, lines 536-543).                 *)
(***************************************************************************)

\* The steps of handleDetection's cooldown: classifier callbacks, the cooldown
\* timers and the passage of time.  The alert recordings that a callback
\* starts stay pending: their callbacks read and write none of timers,
\* detectionActive, detectionStartTime or detectionTimeouts.
NextCooldown ==
    \/ \E sc \in ScoreVectors : ClassifierCallback(sc)
    \/ \E l \in Labels : CooldownFires(l)
    \/ Tick(MaxTicks)

\* The event loop runs a timer that is due: weak fairness of every label's
\* cooldown callback.
SpecCooldown ==
    InitMonitoring /\ [][NextCooldown]_vars /\ \A l \in Labels : WF_vars(CooldownFires(l))

CooldownDue(l) == \E h \in timers[l] : now >= h

CooldownOver(l) ==
    /\ timers[l] = {}
    /\ ~detectionActive[l]
    /\ detectionStartTime[l] = NoTime

\* C21: per label at most one cooldown timer is pending and it is the one of
\* the latest detection; a detection (score >= 78 %) re-arms it 2000 ms ahead;
\* the timer is only consumed by running, not before its due time, and leaves
\* the label inactive with startTime null; nothing else deactivates a label;
\* and a timer that is due leads to the label being reset unless a new
\* detection has restarted the cooldown.
C21_CooldownPerLabel ==
    /\ [](\A l \in Labels :
            /\ Cardinality(timers[l]) <= 1
            /\ timers[l] \subseteq {detectionTimeouts[l]})
    /\ [][\A l \in Labels :
            /\ (nCallbacks' # nCallbacks /\ lastCb'.scores[l] >= 78)
                   => timers'[l] = {now + 2000}
            /\ (timers[l] # {} /\ timers'[l] = {})
                   => /\ CooldownDue(l)
                      /\ ~detectionActive'[l]
                      /\ detectionStartTime'[l] = NoTime
            /\ (detectionActive[l] /\ ~detectionActive'[l])
                   => (timers[l] # {} /\ timers'[l] = {})]_vars
    /\ \A l \in Labels :
            CooldownDue(l) ~> (CooldownOver(l) \/ \E h \in timers[l] : h > now)

\* Witness of C21: a second cough detection restarted a cooldown that was
\* still pending, and the restarted timer has run 2000 ms after it.
C21_Witness ==
    /\ lastCb # NoCb
    /\ CbDetected("cough")
    /\ lastCb.detectionTimeouts["cough"] > lastCb.t
    /\ now >= lastCb.t + 2000
    /\ CooldownOver("cough")

(***************************************************************************)
(* FallDetectionUI: stopping the live feed.                                *)
(***************************************************************************)

\* The three places that call stopVideoFeed on a running feed: the stop
\* branch of the toggle, the live-feed mode button and the retry button.
StopsFeed ==
    \/ FeedClickStop
    \/ (videoStream # 0 /\ LiveFeedBtnClick)
    \/ (videoStream # 0 /\ RetryClick)

\* C22: a step that runs stopVideoFeed stops the tracks of the stream that
\* window.videoStream held, leaves window.videoStream null and the video
\* element without a source.
C22_StopVideoFeedReleases ==
    [][StopsFeed =>
          /\ ~camStreams'[videoStream]
          /\ videoStream' = 0
          /\ videoFeed'.srcObject = 0]_vars

\* Witness of C22: a feed that was started and then stopped by the mode
\* button or the retry button (the toggle still reads "Stop Live Feed"), with
\* no live track, no stream reference and no source left.
C22_Witness ==
    /\ camStreams # <<>>
    /\ feedBtnText = "Stop Live Feed"
    /\ LiveCamStreams = {}
    /\ videoStream = 0
    /\ videoFeed.srcObject = 0
    /\ videoFeed.display = "none"

\* C29: whenever no camera request is pending, the capture controls are
\* visible and the toggle reads "Stop Live Feed" exactly when
\* window.videoStream holds a stream with live tracks.
C29_LiveFeedUiConsistent ==
    (\A i \in DOMAIN feedTasks : feedTasks[i] # "awaitGum") =>
        ((captureControls = "flex" /\ feedBtnText = "Stop Live Feed")
            <=> (videoStream # 0 /\ camStreams[videoStream]))

(***************************************************************************)
(* WeatherWidget (weatherWidget.js).  Values are the texts the server's    *)
(* JSON renders to; a property the answer lacks renders as "undefined".    *)
(***************************************************************************)

Undefined == "undefined"

\* Bodies of GET /weather/current that parse to an object.
WeatherData ==
    { [location |-> "Pune", temperature |-> "21", humidity |-> "40", aqi |-> "55"],
      [location |-> "Pune", temperature |-> "30", humidity |-> "35", aqi |-> "80"],
      [location |-> Undefined, temperature |-> Undefined, humidity |-> "35",
       aqi |-> Undefined] }

\* updateElement (lines 109-112): textContent = value + suffix.
updateElement(value, suffix) == value \o suffix

\* The writes of updateWeatherDisplay for a truthy data (lines 103-116).
updateWeatherDisplay(data) ==
    [location |-> IF data.location \in {Undefined, ""} THEN "Unknown" ELSE data.location,
     tempValue |-> updateElement(data.temperature, "°C"),
     humidityValue |-> updateElement(data.humidity, "%"),
     aqiValue |-> updateElement(data.aqi, "")]

\* The interval callback of line 20: another updateWeatherDisplay starts and
\* suspends in fetchWeatherData's fetch.
WeatherIntervalFires ==
    /\ weatherTimer
    /\ Len(weatherFetches) <= MaxWeatherTicks
    /\ weatherFetches' = Append(weatherFetches, [pc |-> "fetch", data |-> "none"])
    /\ UNCHANGED <<weatherShown, weatherTimer>>
    /\ UNCHANGED nonWeatherVars

\* A failure path that also puts the placeholders back.
NoWeatherData_ResetsFields(i, why) ==
    /\ weatherFetches' = [weatherFetches EXCEPT ![i] = [pc |-> why, data |-> "none"]]
    /\ weatherShown' = Placeholders
    /\ UNCHANGED weatherTimer
    /\ UNCHANGED nonWeatherVars

\* fetchWeatherData returns null (lines 89-92) or a falsy body, and
\* updateWeatherDisplay returns at line 100.
NoWeatherData(i, why) ==
    /\ weatherFetches' = [weatherFetches EXCEPT ![i] = [pc |-> why, data |-> "none"]]
    /\ UNCHANGED <<weatherShown, weatherTimer>>
    /\ UNCHANGED nonWeatherVars

\* The fetch rejects (network error).
WeatherFetchRejected(i) ==
    /\ weatherFetches[i].pc = "fetch"
    /\ NoWeatherData(i, "rejected")

\* The fetch resolves with a non-2xx answer (lines 84-86).
WeatherFetchNotOk(i) ==
    /\ weatherFetches[i].pc = "fetch"
    /\ NoWeatherData(i, "not ok")

\* The fetch resolves with a 2xx answer: response.json() is awaited (line 88).
WeatherFetchOk(i) ==
    /\ weatherFetches[i].pc = "fetch"
    /\ weatherFetches' = [weatherFetches EXCEPT ![i].pc = "json"]
    /\ UNCHANGED <<weatherShown, weatherTimer>>
    /\ UNCHANGED nonWeatherVars

\* The body does not parse: response.json() rejects inside the try.
WeatherJsonRejected(i) ==
    /\ weatherFetches[i].pc = "json"
    /\ NoWeatherData(i, "unparsable")

\* The body parses to null (or another falsy value).
WeatherJsonFalsy(i) ==
    /\ weatherFetches[i].pc = "json"
    /\ NoWeatherData(i, "falsy")

\* The body parses to an object: the four fields are written (lines 103-116).
WeatherJsonParsed(i, data) ==
    /\ weatherFetches[i].pc = "json"
    /\ weatherFetches' = [weatherFetches EXCEPT ![i] = [pc |-> "shown", data |-> data]]
    /\ weatherShown' = updateWeatherDisplay(data)
    /\ UNCHANGED weatherTimer
    /\ UNCHANGED nonWeatherVars

NextWeather ==
    \/ WeatherIntervalFires
    \/ \E i \in DOMAIN weatherFetches : WeatherFetchRejected(i)
    \/ \E i \in DOMAIN weatherFetches : WeatherFetchNotOk(i)
    \/ \E i \in DOMAIN weatherFetches : WeatherFetchOk(i)
    \/ \E i \in DOMAIN weatherFetches : WeatherJsonRejected(i)
    \/ \E i \in DOMAIN weatherFetches : WeatherJsonFalsy(i)
    \/ \E i \in DOMAIN weatherFetches, data \in WeatherData : WeatherJsonParsed(i, data)

SpecWeather == Init /\ [][NextWeather]_vars

Pending(f) == f.pc \in {"fetch", "json"}
Shown == {i \in DOMAIN weatherFetches : weatherFetches[i].pc = "shown"}
FetchFailed(i) ==
    /\ Pending(weatherFetches[i])
    /\ weatherFetches'[i].pc \in {"rejected", "not ok"}

\* C23: a weather fetch that is rejected or answered non-2xx leaves the four
\* fields as they were and the 5-minute interval armed; the fields show the
\* placeholders as long as no fetch has succeeded; the interval is never
\* cleared.
C23_FetchFailureLeavesDisplay ==
    /\ [](weatherTimer /\ (Shown = {} => weatherShown = Placeholders))
    /\ [][(\E i \in DOMAIN weatherFetches : FetchFailed(i)) =>
              /\ weatherShown' = weatherShown
              /\ weatherTimer']_vars

\* Witness of C23: the first fetch succeeded, the second failed with a
\* non-2xx answer, the fields still show the first fetch's values, and the
\* interval has issued a third fetch.
C23_Witness ==
    /\ Len(weatherFetches) = 3
    /\ weatherFetches[1].pc = "shown"
    /\ weatherFetches[2].pc = "not ok"
    /\ weatherShown = updateWeatherDisplay(weatherFetches[1].data)
    /\ weatherShown # Placeholders

Latest(S) == CHOOSE i \in S : \A j \in S : j <= i

\* C30: once every issued fetch has been answered, the fields show the data
\* of the most recently issued fetch among those that succeeded.
C30_LatestRequestWins ==
    ((\A i \in DOMAIN weatherFetches : ~Pending(weatherFetches[i])) /\ Shown # {})
        => weatherShown = updateWeatherDisplay(weatherFetches[Latest(Shown)].data)

(***************************************************************************)
(* VideoMonitoring (fall-detection.js, lines 527-612).                     *)
(***************************************************************************)

\* showLoading(show) (lines 544-557): what it makes of #process-btn.
showLoading(show) ==
    IF show THEN [disabled |-> TRUE, text |-> "Processing...", spinner |-> ""]
    ELSE [disabled |-> FALSE, text |-> "Process Video", spinner |-> "d-none"]

\* The user picks a file in #video-upload, or clears the selection.
VmFileChanged ==
    /\ vmFile' = ~vmFile
    /\ UNCHANGED <<processBtn, vmRequests, fallAlerts, processedVideo>>
    /\ UNCHANGED nonVmVars

\* Click on #process-btn without a file (lines 571-575).  A disabled button
\* dispatches no click event.
ProcessClickNoFile ==
    /\ ~processBtn.disabled
    /\ ~vmFile
    /\ Len(fallAlerts) < MaxProcessClicks
    /\ fallAlerts' = Append(fallAlerts, "Please select a video file first")
    /\ UNCHANGED <<processBtn, vmFile, vmRequests, processedVideo>>
    /\ UNCHANGED nonVmVars

\* Click on #process-btn with a file (lines 577-590): loading state, alerts
\* cleared, the POST issued and awaited.
ProcessClick ==
    /\ ~processBtn.disabled
    /\ vmFile
    /\ Len(vmRequests) < MaxProcessClicks
    /\ processBtn' = showLoading(TRUE)
    /\ fallAlerts' = <<>>
    /\ vmRequests' = Append(vmRequests, [pc |-> "fetch", outcome |-> "none"])
    /\ UNCHANGED <<vmFile, processedVideo>>
    /\ UNCHANGED nonVmVars

\* The end of processVideo re-enabling the button only on the success path.
ProcessVideoEnds_NoFinally(i, outcome, message) ==
    /\ vmRequests' = [vmRequests EXCEPT ![i] = [pc |-> "done", outcome |-> outcome]]
    /\ fallAlerts' = IF outcome = "success" THEN fallAlerts
                     ELSE Append(fallAlerts, message)
    /\ processBtn' = IF outcome = "success" THEN showLoading(FALSE) ELSE processBtn
    /\ UNCHANGED vmFile
    /\ UNCHANGED nonVmVars

\* The end of processVideo (lines 599-604): the catch block shows the error's
\* message for every outcome but success, the finally block leaves loading.
ProcessVideoEnds(i, outcome, message) ==
    /\ vmRequests' = [vmRequests EXCEPT ![i] = [pc |-> "done", outcome |-> outcome]]
    /\ fallAlerts' = IF outcome = "success" THEN fallAlerts
                     ELSE Append(fallAlerts, message)
    /\ processBtn' = showLoading(FALSE)
    /\ UNCHANGED vmFile
    /\ UNCHANGED nonVmVars

\* The POST rejects.
ProcessFetchRejected(i) ==
    /\ vmRequests[i].pc = "fetch"
    /\ ProcessVideoEnds(i, "rejected", "Failed to fetch")
    /\ UNCHANGED processedVideo

\* The POST resolves, whatever its status code: response.json() is awaited
\* (line 592).
ProcessFetchResolved(i) ==
    /\ vmRequests[i].pc = "fetch"
    /\ vmRequests' = [vmRequests EXCEPT ![i].pc = "json"]
    /\ UNCHANGED <<processBtn, vmFile, fallAlerts, processedVideo>>
    /\ UNCHANGED nonVmVars

\* Bodies that parse to an object: success, an error with and without message.
ProcessResults ==
    { [status |-> "success", processed_video |-> "/videos/out.mp4", message |-> ""],
      [status |-> "error", processed_video |-> "", message |-> "No video stream"],
      [status |-> "error", processed_video |-> "", message |-> ""] }

\* The body parses (lines 594-598).
ProcessJsonParsed(i, result) ==
    /\ vmRequests[i].pc = "json"
    /\ IF result.status = "success"
       THEN /\ processedVideo' = [display |-> "block", src |-> result.processed_video]
            /\ ProcessVideoEnds(i, "success", "")
       ELSE /\ UNCHANGED processedVideo
            /\ ProcessVideoEnds(i, "status",
                   IF result.message = "" THEN "Failed to process video"
                   ELSE result.message)

\* The body does not parse: response.json() rejects with a SyntaxError.
ProcessJsonRejected(i) ==
    /\ vmRequests[i].pc = "json"
    /\ ProcessVideoEnds(i, "unparsable", "Unexpected token")
    /\ UNCHANGED processedVideo

\* The body parses to null: reading result.status throws a TypeError.
ProcessJsonNull(i) ==
    /\ vmRequests[i].pc = "json"
    /\ ProcessVideoEnds(i, "null", "Cannot read properties of null")
    /\ UNCHANGED processedVideo

NextVm ==
    \/ VmFileChanged
    \/ ProcessClickNoFile
    \/ ProcessClick
    \/ \E i \in DOMAIN vmRequests : ProcessFetchRejected(i)
    \/ \E i \in DOMAIN vmRequests : ProcessFetchResolved(i)
    \/ \E i \in DOMAIN vmRequests, result \in ProcessResults : ProcessJsonParsed(i, result)
    \/ \E i \in DOMAIN vmRequests : ProcessJsonRejected(i)
    \/ \E i \in DOMAIN vmRequests : ProcessJsonNull(i)

SpecVm == Init /\ [][NextVm]_vars

InFlight == {i \in DOMAIN vmRequests : vmRequests[i].pc # "done"}

\* C24: the process button is disabled, showing the loading state, exactly
\* while a process-video request is in flight; at most one request is in
\* flight; with every request answered, whatever the outcome, the button is
\* enabled and reads "Process Video".
C24_ButtonDisabledWhileInFlight ==
    /\ Cardinality(InFlight) <= 1
    /\ processBtn = showLoading(InFlight # {})

\* Witness of C24: one request ended on an unparsable answer, one on a
\* rejected fetch, and a third is in flight with the button disabled.
C24_Witness ==
    /\ \E i \in DOMAIN vmRequests : vmRequests[i].outcome = "unparsable"
    /\ \E i \in DOMAIN vmRequests : vmRequests[i].outcome = "rejected"
    /\ InFlight # {}
    /\ processBtn.disabled

(***************************************************************************)
(* AudioMonitor: the per-frame sampling loops and the callback stream      *)
(* across start and stop.                                                  *)
(***************************************************************************)

\* A requested animation frame runs its analyze closure (lines 340-359,
\* 422-443): the closure returns when isListening is false and requests the
\* next frame otherwise; setupAudioProcessing's closure stores the new id.
AnimationFrame(loop) ==
    /\ loop \in frames
    /\ frames' = Analyze(frames \ {loop}, loop, isListening)
    /\ animationId' = IF loop # 0 THEN animationId
                      ELSE IF isListening THEN "pending" ELSE "stale"
    /\ UNCHANGED <<pagePc, btnEnabled, btnText, audioStatus, audioContext, ctxState,
                   microphone, micStreams, gumInit, tasks, isListening, streaming>>
    /\ UNCHANGED <<detectVars, now>>
    /\ UNCHANGED nonAudioVars

NextLoop ==
    \/ NextAudio
    \/ \E loop \in frames : AnimationFrame(loop)

SpecLoop == Init /\ [][NextLoop]_vars

\* C26: at most one sampling loop has a frame requested at any time, and
\* while the monitor is stopped no frame callback requests another frame.
C26_AtMostOneSamplingLoop ==
    /\ [](Cardinality(frames) <= 1)
    /\ [][\A loop \in frames :
            (~isListening /\ AnimationFrame(loop)) => frames' = frames \ {loop}]_vars

\* The stop button and the detection pipeline side by side, from the state
\* in which the monitor listens.
NextStop ==
    \/ ClickStop
    \/ \E i \in DOMAIN tasks : CloseResolved(i)
    \/ \E i \in DOMAIN tasks : CloseRejected(i)
    \/ NextDetect

SpecStop == InitMonitoring /\ [][NextStop]_vars

Stopped == ~isListening /\ audioStatus = "Monitoring stopped"

\* C25: while the monitor is stopped no step counts a detection, shows an
\* alert, adds a DetectionEvent or starts a recording, and the classifier's
\* callback stream is not running.
C25_NoDetectionWhileStopped ==
    /\ [](Stopped => ~streaming)
    /\ [][Stopped =>
            /\ totalDetections' = totalDetections
            /\ dialogs' = dialogs
            /\ nAdded' = nAdded
            /\ Len(recordings') = Len(recordings)]_vars

(***************************************************************************)
(* FaceRegistration: consistency of the stored capture, late results.      *)
(***************************************************************************)

\* C27: isFaceCaptured holds exactly when faceDescriptor is non-null, the
\* hidden field holds the JSON of faceDescriptor then and is empty otherwise,
\* and while the status shows the capture-error or the no-face message no
\* descriptor is stored.
C27_CaptureStateConsistent ==
    /\ isFaceCaptured <=> faceDescriptor # "null"
    /\ descriptorInput = IF faceDescriptor # "null" THEN JSONStringify(faceDescriptor)
                         ELSE ""
    /\ faceStatus \in {"captureError", "noFace"} =>
          (faceDescriptor = "null" /\ descriptorInput = "" /\ ~isFaceCaptured)

\* A contestant of capture i's race settling after captureFace returned.
SettlesLate(i, field) ==
    /\ captures[i].pc = "done"
    /\ captures[i][field] \in {"pending", "armed"}
    /\ captures'[i][field] \in {"settled", "fired"}

\* C28: a detection result arriving after its capture timed out, and a 20 s
\* timer running after its capture ended otherwise, change neither
\* faceDescriptor, the hidden field, isFaceCaptured nor the status, whatever
\* captures and retakes happened meanwhile.
C28_LateResultsChangeNothing ==
    [][\A i \in DOMAIN captures :
          (SettlesLate(i, "detection") \/ SettlesLate(i, "timer")) =>
              UNCHANGED <<faceDescriptor, descriptorInput, isFaceCaptured,
                          faceStatus>>]_vars

\* Witness of C28: the first capture timed out and its detection settled
\* afterwards; a second capture found a face and its timer ran afterwards; the
\* second capture's descriptor and status are in place.
C28_Witness ==
    /\ Len(captures) = 2
    /\ captures[1].outcome = "timeout" /\ captures[1].detection = "settled"
    /\ captures[2].outcome = "captured" /\ captures[2].timer = "fired"
    /\ faceDescriptor = "descriptor"
    /\ isFaceCaptured
    /\ faceStatus = "captured"

====
